---- MODULE Spec2Model ----
EXTENDS Integers, Sequences, FiniteSets, TLC

(***************************************************************************)
(* Model of the botty dispatch core: the message registry                  *)
(* (routing/registry.py), the dependency container, resolver and request   *)
(* scope (di/), the response processor (routing/response_processor.py)     *)
(* and the router's invocation wrapper (routing/router.py).                *)
(***************************************************************************)

\* Python's None, where a string, an int or a MessageRecord is expected
None == "None"
NoneInt == -1

\* ---- bounds ------------------------------------------------------------
\* max_messages_per_chat of the registry under test (the default is 100)
MaxPerChat == 2
\* cap on the number of register_message calls of one behaviour
MaxRegs == 3
\* cap on the items the handler bodies of one behaviour yield
MaxItems == 2
\* cap on the items of one behaviour of concurrent invocations: one more
\* than a chat holds
MaxConcItems == 3
\* the depth of nested resolve calls at which the interpreter gives up
\* (RecursionError), counted in frames of the model
MaxDepth == 4
\* cap on the reset() calls of one behaviour
MaxResets == 1
\* PTBBotAdapter.edit calls made in one behaviour
MaxEdits == 2
\* resolves and resolver calls after which a failed resolve_handler is not
\* called again
MaxResolved == 3

\* ---- input domains -----------------------------------------------------
Chats == {1, 2}
MessageIds == {1, 2}
HandlerNames == {"h1", "h2"}
Keys == {"k1"}
Timestamps == {1, 2}
Metadatas == {"m1"}
EmptyMeta == "{}"

\* handler invocations (Router._wrap_function calls) of one behaviour
Invs == {1, 2}
\* resolver functions wrapped by Depends markers
Fns == {"inner", "outer"}
\* values a resolver function may return, besides None
Values == {"v1", "v2"}

VARIABLES
    registry,          \* MessageRegistry._registry: chat_id -> deque of records
    key_registry,      \* MessageRegistry._key_registry: key -> record
    handler_registry,  \* MessageRegistry._handler_registry: handler -> list
    count,             \* number of register_message calls made per chat
    old_record,        \* local old_record of the last register_message call
    last_call,         \* the last register_message call: its key argument
                       \* and the record the key mapped to before the call
    registering,       \* the register_message call in progress: the statement
                       \* it is at, its record and arguments
    lookup,            \* the last lookup made since the last register_message
                       \* call, and what it returned
    world,             \* the program: handlers, resolver signatures
    pc,                \* per invocation: position in _wrap_function
    inv,               \* per invocation: handler_name, its parameters, chat id
    stack,             \* per invocation: frames of resolve_handler/_call_dependency
    chain,             \* per invocation: dependency_chain
    cache,             \* per invocation: RequestScope.cache
    calls,             \* per invocation: times each resolver function ran
    rlog,              \* per invocation: resolve_dependency calls that returned
    error,             \* per invocation: the exception that left _wrap_function
    requested,         \* per invocation: items taken from the generator
    results,           \* per invocation: how each item's processing ended
    item,              \* per invocation: the answer being processed
    sent,              \* calls made on the transport port, in order
    regLog,            \* per invocation: records it registered, in order
    scope,             \* per invocation: RequestScope._session, _session_closed
    dblog,             \* per invocation: calls on the provider and the session
    singletons,        \* DependencyContainer._singletons: type -> instance
    injections,        \* services and repositories injected, and resets, in order
    adapter            \* PTBBotAdapter: the edit call in progress, its bot calls

regVars ==
    <<registry, key_registry, handler_registry, count, old_record, last_call,
      registering, lookup>>
containerVars == <<singletons, injections>>
adapterVars == <<adapter>>
diVars ==
    <<world, pc, inv, stack, chain, cache, calls, rlog, error, containerVars>>
procVars == <<requested, results, item, sent, regLog>>
scopeVars == <<scope, dblog>>
vars == <<regVars, diVars, procVars, scopeVars, adapterVars>>

\* ---- Python helpers ----------------------------------------------------
\* dict[k] = v
DictSet(d, k, v) == [x \in (DOMAIN d) \cup {k} |-> IF x = k THEN v ELSE d[x]]
\* del dict[k] for every k in ks
DictDel(d, ks) == [x \in (DOMAIN d) \ ks |-> d[x]]
\* dict.get(k, default)
DictGet(d, k, default) == IF k \in DOMAIN d THEN d[k] ELSE default
EmptyDict == <<>>

\* truthiness of the optional values used in `if x:` tests
Truthy(x) == x # None /\ x # ""
TruthyInt(x) == x # NoneInt /\ x # 0

\* x or y
Or(x, y) == IF Truthy(x) THEN x ELSE y

Min(a, b) == IF a < b THEN a ELSE b

\* ---- MessageRecord -----------------------------------------------------
\* A record is the dataclass's five fields plus seq, the position of its
\* register_message call among the calls for its chat: (chat_id, seq) is
\* the object's identity, so TLA+ equality of records is Python's `is`.
MessageRecord(message_id, chat_id, handler_name, timestamp, metadata, seq) ==
    [message_id |-> message_id, chat_id |-> chat_id,
     handler_name |-> handler_name, timestamp |-> timestamp,
     metadata |-> metadata, seq |-> seq]

NoRecord == MessageRecord(NoneInt, NoneInt, None, NoneInt, None, 0)

\* dataclass __eq__: the declared fields compared as a tuple
RecordEq(a, b) ==
    /\ a.message_id = b.message_id
    /\ a.chat_id = b.chat_id
    /\ a.handler_name = b.handler_name
    /\ a.timestamp = b.timestamp
    /\ a.metadata = b.metadata

\* domain Message returned by the transport
Message(message_id, chat_id, date) ==
    [message_id |-> message_id, chat_id |-> chat_id, date |-> date]

\* ---- MessageRegistry ---------------------------------------------------
\* The three dicts of a registry, as one value the operations transform
RegistryState(r, k, h) ==
    [registry |-> r, key_registry |-> k, handler_registry |-> h]

\* an append that never drops the oldest element
DequeAppendUnbounded(dq, x, maxlen) == dq \o <<x>>

\* deque(maxlen=n).append(x)
DequeAppend(dq, x, maxlen) ==
    IF maxlen = 0 THEN dq
    ELSE IF Len(dq) >= maxlen THEN Tail(dq) \o <<x>>
    ELSE dq \o <<x>>

\* index of the first element list.remove(record) would remove, 0 if none
FirstEqual(list, record) ==
    IF \E i \in 1..Len(list) : RecordEq(list[i], record)
    THEN CHOOSE i \in 1..Len(list) :
             /\ RecordEq(list[i], record)
             /\ \A j \in 1..(i - 1) : ~RecordEq(list[j], record)
    ELSE 0

RemoveAt(list, i) ==
    [j \in 1..(Len(list) - 1) |-> IF j < i THEN list[j] ELSE list[j + 1]]

\* a cleanup that leaves the evicted record's keys in place
CleanupKeysKeepsKeys(kr, record) == kr

\* a cleanup that leaves the evicted record in its handler's list
CleanupHandlersKeepsRecord(hr, record) == hr

\* _cleanup_record_references(record): the key index
CleanupKeys(kr, record) ==
    DictDel(kr, {k \in DOMAIN kr : kr[k].message_id = record.message_id})

\* _cleanup_record_references(record): the handler index
CleanupHandlers(hr, record) ==
    IF record.handler_name \in DOMAIN hr
    THEN LET list == hr[record.handler_name]
             i == FirstEqual(list, record)
         IN IF i = 0 THEN hr    \* ValueError: pass
            ELSE LET rest == RemoveAt(list, i)
                 IN IF rest = <<>>
                    THEN DictDel(hr, {record.handler_name})
                    ELSE DictSet(hr, record.handler_name, rest)
    ELSE hr

CleanupRecordReferences(st, record) ==
    RegistryState(st.registry,
                  CleanupKeys(st.key_registry, record),
                  CleanupHandlers(st.handler_registry, record))

\* the record register_message creates
NewRecord(message, handler_name, metadata, now, seq) ==
    MessageRecord(message.message_id, message.chat_id,
                  Or(handler_name, "unknown"),
                  IF message.date # NoneInt THEN message.date ELSE now,
                  Or(metadata, EmptyMeta), seq)

\* the record register_message will evict, NoRecord if the chat has room
OldRecord(st, chat_id) ==
    LET dq == DictGet(st.registry, chat_id, <<>>)
    IN IF Len(dq) >= MaxPerChat /\ Len(dq) > 0 THEN dq[1] ELSE NoRecord

\* an AddKey that keeps the first record registered under a key
AddKeyFirstWins(kr, key, record) ==
    IF Truthy(key) /\ key \notin DOMAIN kr THEN DictSet(kr, key, record) ELSE kr

AddKey(kr, key, record) ==
    IF Truthy(key) THEN DictSet(kr, key, record) ELSE kr

AddHandler(hr, handler_name, record) ==
    IF Truthy(handler_name)
    THEN DictSet(hr, handler_name, DictGet(hr, handler_name, <<>>) \o <<record>>)
    ELSE hr

\* register_message(message, handler_name, key, metadata): the registry
\* after the call; record is the MessageRecord the call creates
RegisterMessage(st, record, handler_name, key) ==
    LET chat == record.chat_id
        old == OldRecord(st, chat)
        appended == RegistryState(
            DictSet(st.registry, chat,
                    DequeAppend(DictGet(st.registry, chat, <<>>), record, MaxPerChat)),
            st.key_registry, st.handler_registry)
        cleaned == IF old # NoRecord THEN CleanupRecordReferences(appended, old)
                   ELSE appended
    IN RegistryState(cleaned.registry,
                     AddKey(cleaned.key_registry, key, record),
                     AddHandler(cleaned.handler_registry, handler_name, record))

\* get_last_message(chat_id)
GetLastMessage(st, chat_id) ==
    IF chat_id \in DOMAIN st.registry /\ st.registry[chat_id] # <<>>
    THEN st.registry[chat_id][Len(st.registry[chat_id])]
    ELSE NoRecord

\* get_by_key(key)
GetByKey(st, key) == DictGet(st.key_registry, key, NoRecord)

Reverse(s) == [i \in 1..Len(s) |-> s[Len(s) + 1 - i]]

Take(s, n) == SubSeq(s, 1, Min(n, Len(s)))

MaxOf(S) == CHOOSE x \in S : \A y \in S : y <= x

\* sorted(records, key=timestamp, reverse=True): a stable sort, so records
\* of equal timestamp keep their list order
RECURSIVE SortedByTimestampDesc(_)
SortedByTimestampDesc(records) ==
    IF records = <<>> THEN <<>>
    ELSE LET top == MaxOf({records[i].timestamp : i \in 1..Len(records)})
             IsTop(r) == r.timestamp = top
             NotTop(r) == r.timestamp # top
         IN SelectSeq(records, IsTop)
            \o SortedByTimestampDesc(SelectSeq(records, NotTop))

\* get_by_handler(handler_name, chat_id, limit)
GetByHandler(st, handler_name, chat_id, limit) ==
    LET all == DictGet(st.handler_registry, handler_name, <<>>)
        InChat(r) == r.chat_id = chat_id
        filtered == IF TruthyInt(chat_id) THEN SelectSeq(all, InChat) ELSE all
        sorted == SortedByTimestampDesc(filtered)
    IN IF TruthyInt(limit) THEN Take(sorted, limit) ELSE sorted

\* get_all_for_chat(chat_id, limit)
GetAllForChat(st, chat_id, limit) ==
    IF chat_id \notin DOMAIN st.registry THEN <<>>
    ELSE LET messages == Reverse(st.registry[chat_id])
         IN IF TruthyInt(limit) THEN Take(messages, limit) ELSE messages

\* the hints of an EditAnswer that find_message_to_edit reads
EditHints(message_id, message_key, handler_name) ==
    [message_id |-> message_id, message_key |-> message_key,
     handler_name |-> handler_name]

\* a find_message_to_edit whose key step does not look at the chat
FindMessageToEditAnyChat(st, answer, chat_id, handler_name) ==
    LET byKey == IF answer.message_key # None
                 THEN GetByKey(st, answer.message_key) ELSE NoRecord
        byOrigin == IF answer.handler_name # None
                    THEN GetByHandler(st, answer.handler_name, chat_id, NoneInt)
                    ELSE <<>>
        byCurrent == GetByHandler(st, handler_name, chat_id, NoneInt)
        last == GetLastMessage(st, chat_id)
    IN IF answer.message_id # NoneInt THEN answer.message_id
       ELSE IF byKey # NoRecord THEN byKey.message_id
       ELSE IF Len(byOrigin) > 0 THEN byOrigin[1].message_id
       ELSE IF Len(byCurrent) > 0 THEN byCurrent[1].message_id
       ELSE IF last # NoRecord THEN last.message_id
       ELSE NoneInt

\* find_message_to_edit(answer, chat_id, handler_name)
FindMessageToEdit(st, answer, chat_id, handler_name) ==
    LET byKey == IF answer.message_key # None
                 THEN GetByKey(st, answer.message_key) ELSE NoRecord
        byOrigin == IF answer.handler_name # None
                    THEN GetByHandler(st, answer.handler_name, chat_id, NoneInt)
                    ELSE <<>>
        byCurrent == GetByHandler(st, handler_name, chat_id, NoneInt)
        last == GetLastMessage(st, chat_id)
    IN IF answer.message_id # NoneInt THEN answer.message_id
       ELSE IF byKey # NoRecord /\ byKey.chat_id = chat_id THEN byKey.message_id
       ELSE IF Len(byOrigin) > 0 THEN byOrigin[1].message_id
       ELSE IF Len(byCurrent) > 0 THEN byCurrent[1].message_id
       ELSE IF last # NoRecord THEN last.message_id
       ELSE NoneInt

\* ---- the registry as a state machine -----------------------------------
\* a register_message call seen from outside: the key it was given and what
\* get_by_key(key) returned before it
RegisterCall(kr, key) ==
    [key |-> key,
     previous |-> IF key # None THEN DictGet(kr, key, NoRecord) ELSE NoRecord]

Reg == RegistryState(registry, key_registry, handler_registry)

\* a call of one of the lookups: op names the method; the arguments it
\* does not take are None
Query(op, key, handler_name, chat_id, answer) ==
    [op |-> op, key |-> key, handler_name |-> handler_name,
     chat_id |-> chat_id, answer |-> answer]

NoQuery == Query(None, None, None, NoneInt, EditHints(NoneInt, None, None))

\* the lookups asked: by key, by handler with and without a chat, the last
\* and all records of a chat, and the target of an edit without a direct id,
\* with and without a key
Queries ==
    {Query("get_by_key", "k1", None, NoneInt, NoQuery.answer),
     Query("get_by_handler", None, "h1", NoneInt, NoQuery.answer),
     Query("get_by_handler", None, "h1", 1, NoQuery.answer),
     Query("get_last_message", None, None, 1, NoQuery.answer),
     Query("get_all_for_chat", None, None, 1, NoQuery.answer)}
    \cup {Query("find_message_to_edit", None, "h1", 1, EditHints(NoneInt, k, None)) :
             k \in Keys \cup {None}}

\* what the lookup returns
Ask(st, q) ==
    CASE q.op = "get_by_key" -> <<GetByKey(st, q.key)>>
      [] q.op = "get_by_handler" ->
             GetByHandler(st, q.handler_name, q.chat_id, NoneInt)
      [] q.op = "get_last_message" -> <<GetLastMessage(st, q.chat_id)>>
      [] q.op = "get_all_for_chat" -> GetAllForChat(st, q.chat_id, NoneInt)
      [] q.op = "find_message_to_edit" ->
             <<FindMessageToEdit(st, q.answer, q.chat_id, q.handler_name)>>
      [] OTHER -> <<>>

\* a get_all_for_chat that reverses the chat's deque itself, not a copy
AfterLookupReversesDeque(st, q) ==
    IF q.op = "get_all_for_chat" /\ q.chat_id \in DOMAIN st.registry
    THEN RegistryState(
             DictSet(st.registry, q.chat_id, Reverse(st.registry[q.chat_id])),
             st.key_registry, st.handler_registry)
    ELSE st

\* the registry after the lookup: dict.get and guarded subscripts add no
\* entry; get_by_handler sorts a copy of the handler's list and
\* get_all_for_chat reverses a list made from the deque
AfterLookup(st, q) == st

Looked(q, result) == [query |-> q, result |-> result]
NoLookup == Looked(NoQuery, <<>>)

\* a register_message call at statement `at`
Registering(at, record, handler_name, key) ==
    [at |-> at, record |-> record, handler_name |-> handler_name, key |-> key]

NotRegistering == Registering("idle", NoRecord, None, None)

\* MessageRegistry.__init__
RegInit ==
    /\ registry = EmptyDict
    /\ key_registry = EmptyDict
    /\ handler_registry = EmptyDict
    /\ count = [c \in Chats |-> 0]
    /\ old_record = NoRecord
    /\ last_call = RegisterCall(EmptyDict, None)
    /\ registering = NotRegistering
    /\ lookup = NoLookup

TotalCount == count[1] + count[2]

SetRegistry(st) ==
    /\ registry' = st.registry
    /\ key_registry' = st.key_registry
    /\ handler_registry' = st.handler_registry

\* one register_message call
Register ==
    /\ TotalCount < MaxRegs
    /\ \E message_id \in MessageIds, chat_id \in Chats,
          date \in Timestamps \cup {NoneInt}, now \in Timestamps,
          handler_name \in HandlerNames \cup {None},
          key \in Keys \cup {None}, metadata \in {None} :
         LET message == Message(message_id, chat_id, date)
             record == NewRecord(message, handler_name, metadata, now,
                                 count[chat_id] + 1)
         IN /\ date = NoneInt \/ now = 1
            /\ SetRegistry(RegisterMessage(Reg, record, handler_name, key))
            /\ old_record' = OldRecord(Reg, chat_id)
            /\ last_call' = RegisterCall(key_registry, key)
            /\ UNCHANGED registering
            /\ lookup' = NoLookup
            /\ count' = [count EXCEPT ![chat_id] = @ + 1]


\* ---- dependency markers, signatures, frames ----------------------------
\* Depends(dependency, use_cache)
Depends(fn, use_cache) == [fn |-> fn, use_cache |-> use_cache]
NoDepends == Depends(None, FALSE)

\* a declared parameter, as _extract_depends and _inject_basic_dependencies
\* classify its annotation
Param(kind, dep) == [kind |-> kind, dep |-> dep]
DependsParam(fn, use_cache) == Param("depends", Depends(fn, use_cache))
UpdateParam == Param("update", NoDepends)
ContextParam == Param("context", NoDepends)
\* an annotation that is neither a marker nor a built-in type (x: str)
PlainParam == Param("plain", NoDepends)
\* a parameter without annotation (update, context written bare)
UnannotatedParam == Param("unannotated", NoDepends)
\* session: Session, bound to scope.session
SessionParam == Param("session", NoDepends)
\* svc: SomeService, a BaseService subclass
ServiceParam == Param("service", NoDepends)
\* repo: SomeRepository, a BaseRepository subclass
RepositoryParam == Param("repository", NoDepends)

ParamNames == <<"p1", "p2", "p3", "p4">>

\* a handler function: __name__ and the parameters resolve_handler walks
Handler(name, params) == [name |-> name, params |-> params]

\* the exception that leaves an invocation
Error(type, dependency_chain, cause) ==
    [type |-> type, dependency_chain |-> dependency_chain, cause |-> cause,
     parameter_name |-> None, handler_name |-> None, message |-> <<>>]
NoError == Error(None, <<>>, None)

\* the texts the messages of resolution errors are built from
NotConfiguredText == "no database provider configured"
NoDependsText == "Annotation does not contain Depends"
NoFunctionText == "Dependency function not provided"
FailedText == "Failed to resolve dependency"

\* the error with its message: the text, then what the f-string appends
Saying(err, message) == [err EXCEPT !.message = message]

\* a resolution error that leaves the wrapping except clause without the
\* names of the parameter and the handler
ResolutionErrorUnnamed(dependency_chain, parameter_name, handler_name, cause) ==
    Error("DependencyResolutionError", dependency_chain, cause)

\* DependencyResolutionError(message, dependency_chain, parameter_name,
\* handler_name) raised from the exception cause
ResolutionError(dependency_chain, parameter_name, handler_name, cause) ==
    [Error("DependencyResolutionError", dependency_chain, cause)
        EXCEPT !.parameter_name = parameter_name,
               !.handler_name = handler_name]
\* the marker of a resolver function call that raises instead of returning
Raise == "raise"

\* an activation of resolve_handler (kind "handler") or of
\* resolve_dependency awaiting _call_dependency (kind "call"): i is the
\* next parameter to bind, args the values bound so far
Frame(kind, fn, use_cache, i, args, unbound) ==
    [kind |-> kind, fn |-> fn, use_cache |-> use_cache, i |-> i,
     args |-> args, unbound |-> unbound]
HandlerFrame == Frame("handler", None, FALSE, 1, <<>>, FALSE)
\* a _call_dependency that calls the function without walking its
\* parameters
CallFrameSkipsParams(dep) ==
    Frame("call", dep.fn, dep.use_cache, Len(world.sig[dep.fn]) + 1, <<>>, FALSE)

CallFrame(dep) == Frame("call", dep.fn, dep.use_cache, 1, <<>>, FALSE)

Top(stk) == stk[Len(stk)]
\* param_name of the loop of resolve_handler: the parameter of the handler
\* being resolved, whatever the depth of the resolver call
HandlerParamName(stk) == ParamNames[stk[1].i]
Pop(stk) == SubSeq(stk, 1, Len(stk) - 1)

\* dep_args[param_name] = value; continue
Deliver(stk, value) ==
    [stk EXCEPT ![Len(stk)] =
        [@ EXCEPT !.args = Append(@, value), !.i = @ + 1]]

\* the parameter is left out of dep_args
LeaveUnbound(stk) ==
    [stk EXCEPT ![Len(stk)] = [@ EXCEPT !.unbound = TRUE, !.i = @ + 1]]

\* a get_dependency that looks into the caches of all scopes
GetDependencyShared(c, dep) ==
    IF dep.use_cache /\ \E j \in Invs : dep.fn \in DOMAIN cache[j]
    THEN cache[CHOOSE j \in Invs : dep.fn \in DOMAIN cache[j]][dep.fn]
    ELSE None

\* RequestScope.get_dependency(dep)
GetDependency(c, dep) ==
    IF dep.use_cache /\ dep.fn \in DOMAIN c THEN c[dep.fn] ELSE None

\* RequestScope.cache_dependency(cls, dependency)
CacheDependency(c, fn, value) == DictSet(c, fn, value)

\* a resolve_dependency that stores an entry for a call that raised
CallRaisedCaches(c, frame) ==
    IF frame.use_cache THEN CacheDependency(c, frame.fn, None) ELSE c

\* the exception of _call_dependency leaves resolve_dependency before
\* cache_dependency is reached
CallRaised(c, frame) == c

\* a resolve that also answers from the scope, with None, for a function
\* whose call is still in progress
CacheHitOrInProgress(c, dep) ==
    dep.use_cache
    /\ \/ GetDependency(c, dep) # None
       \/ \E i \in Invs : \E n \in 1..Len(stack[i]) : stack[i][n].fn = dep.fn

\* a resolve that answers from the scope whatever the marker's use_cache
CacheHitAnyMarker(c, dep) ==
    dep.fn \in DOMAIN c /\ c[dep.fn] # None

\* resolve_dependency returns the scoped value without calling
CacheHit(c, dep) == dep.use_cache /\ GetDependency(c, dep) # None

\* an entry of the log of returned resolve_dependency calls
Resolved(dep, value, invoked) ==
    [fn |-> dep.fn, use_cache |-> dep.use_cache, value |-> value,
     invoked |-> invoked]

\* ---- resolution under test: handlers with up to two parameters ---------
MarkerParams ==
    {DependsParam(f, c) : f \in Fns \cup {None}, c \in BOOLEAN}
HandlerParamLists ==
    {<<>>}
    \cup {<<p>> : p \in MarkerParams \cup {UpdateParam, PlainParam, SessionParam}}
    \cup {<<p, q>> : p \in MarkerParams, q \in MarkerParams}
    \cup {<<DependsParam(f, TRUE), DependsParam(f, FALSE), DependsParam(f, TRUE)>> :
              f \in Fns}

\* signatures of the resolver functions: inner takes nothing, outer takes
\* nothing, a marker of inner, a session, or a parameter nothing can bind
Signatures ==
    {[f \in Fns |-> IF f = "outer" THEN ps ELSE <<>>] :
        ps \in {<<>>, <<PlainParam>>, <<SessionParam>>}
               \cup {<<DependsParam("inner", c)>> : c \in BOOLEAN}}

\* parameters of the handlers the router dispatches to: update and context,
\* then nothing, a marker, a parameter nothing can bind, a marker without
\* a resolver function, or a session
RouterParamLists ==
    {<<UpdateParam, ContextParam>> \o tl :
        tl \in {<<>>, <<DependsParam("inner", TRUE)>>, <<PlainParam>>,
                 <<DependsParam(None, TRUE)>>, <<SessionParam>>}}

\* parameters of handlers that use the session: themselves, through the
\* resolver outer, both, or not at all
ScopeParamLists ==
    {<<UpdateParam, ContextParam>> \o tl :
        tl \in {<<>>, <<SessionParam>>, <<DependsParam("outer", TRUE)>>,
                 <<SessionParam, DependsParam("outer", TRUE)>>,
                 <<DependsParam("outer", TRUE), SessionParam>>,
                 <<PlainParam>>}}

\* signatures in which inner and outer depend on each other, inner on
\* itself, or outer on inner only
CycleSignatures ==
    {[f \in Fns |-> IF f = "outer" THEN <<DependsParam("inner", c)>>
                    ELSE <<DependsParam("outer", d)>>] : c, d \in BOOLEAN}
    \cup {[f \in Fns |-> IF f = "outer" THEN <<DependsParam("inner", c)>>
                         ELSE <<DependsParam("inner", c)>>] : c \in BOOLEAN}
    \cup {[f \in Fns |-> IF f = "outer" THEN <<DependsParam("inner", c)>>
                         ELSE <<>>] : c \in BOOLEAN}

\* parameters of the handlers that use these resolver functions
CycleParamLists ==
    {<<DependsParam(f, c)>> : f \in Fns, c \in BOOLEAN}
    \cup {<<DependsParam("inner", TRUE), DependsParam("outer", TRUE)>>}

\* parameters of handlers that take services and repositories, themselves
\* or through the resolver outer; the two leading parameters are declared
\* as Update and Context, and for one handler each, not annotated, or the
\* second with a type of the application's own
InjectParamLists ==
    {<<UpdateParam, ContextParam>> \o tl :
        tl \in {<<ServiceParam>>, <<ServiceParam, ServiceParam>>,
                 <<RepositoryParam>>, <<RepositoryParam, RepositoryParam>>,
                 <<SessionParam, RepositoryParam>>,
                 <<DependsParam("outer", TRUE)>>,
                 <<DependsParam("outer", TRUE), DependsParam("outer", TRUE)>>}}
    \cup {<<UnannotatedParam, UnannotatedParam, ServiceParam>>,
          <<UpdateParam, PlainParam, ServiceParam>>}

\* the program under test: which handlers are registered, the signatures
\* of the resolver functions, and whether bot_data holds a database provider
World(kind, sig, provider) == [kind |-> kind, sig |-> sig, provider |-> provider]

\* the handlers an invocation may be of
WorldHandlers ==
    IF world.kind = "resolution"
    THEN {Handler("h1", ps) : ps \in HandlerParamLists}
    ELSE IF world.kind = "router"
    THEN {Handler("h1", ps) : ps \in RouterParamLists}
    ELSE IF world.kind = "scope"
    THEN {Handler("h1", ps) : ps \in ScopeParamLists}
    ELSE IF world.kind = "inject"
    THEN {Handler("h1", ps) : ps \in InjectParamLists}
    ELSE IF world.kind = "cycle"
    THEN {Handler("h1", ps) : ps \in CycleParamLists}
    ELSE IF world.kind = "concurrent"
    THEN {Handler("h1", <<UpdateParam, ContextParam>>)}
    ELSE IF world.kind = "followup"
    THEN {Handler(h, <<UpdateParam, ContextParam>>) : h \in HandlerNames}
    ELSE {}

\* the chat id update.get_chat_id() finds, NoneInt if the update has none
WorldChats ==
    IF world.kind = "resolution" THEN {1}
    ELSE IF world.kind = "router" THEN Chats \cup {NoneInt}
    ELSE IF world.kind = "scope" THEN {1, NoneInt}
    ELSE IF world.kind \in {"inject", "cycle", "concurrent", "followup"} THEN {1}
    ELSE {}

\* what a resolver function may return
WorldReturns ==
    IF world.kind = "resolution" THEN Values \cup {None}
    ELSE IF world.kind \in {"router", "scope", "inject", "cycle"} THEN {"v1"}
    ELSE {}

\* ---- RequestScope: the session ------------------------------------------
\* session: _session is not None; closed: _session_closed; deleted: the
\* scope object was garbage collected
ScopeState(session, closed, deleted) ==
    [session |-> session, closed |-> closed, deleted |-> deleted]

\* RequestScope.__init__
NewScope == ScopeState(FALSE, FALSE, FALSE)

\* a session property that asks the provider on every access
OpenCallsEveryAccess(sc) == <<"get_session">>

\* the session property, with a provider: get_session on the first access
OpenSession(sc) == [sc EXCEPT !.session = TRUE]
OpenCalls(sc) == IF sc.session THEN <<>> ELSE <<"get_session">>

\* a close that does not remember that it closed
CloseScopeForgetsFlag(sc) == sc

\* RequestScope.commit
CommitCalls(sc) == IF sc.session THEN <<"commit">> ELSE <<>>

\* RequestScope.close
CloseScope(sc) == IF sc.session THEN [sc EXCEPT !.closed = TRUE] ELSE sc
CloseCalls(sc) == IF sc.session THEN <<"close">> ELSE <<>>

\* RequestScope.__del__
DelScope(sc) == [sc EXCEPT !.deleted = TRUE]
DelCalls(sc) == IF sc.session /\ ~sc.closed THEN <<"close">> ELSE <<>>

\* ---- one invocation: resolution ----------------------------------------
FrameParams(i, f) ==
    IF f.kind = "handler" THEN inv[i].params ELSE world.sig[f.fn]

NoInv == [handler_name |-> None, params |-> <<>>, chat_id |-> NoneInt]
NoAnswer ==
    [type |-> None, message_id |-> NoneInt, message_key |-> None,
     handler_name |-> None, metadata |-> None]

\* how a call on the port, or on the adapter, ends
Outcome(tag, message) == [tag |-> tag, message |-> message]
NoMessage == Message(NoneInt, NoneInt, NoneInt)

\* no edit() is in progress
AdapterIdle ==
    [pc |-> "idle", chat_id |-> NoneInt, message_id |-> NoneInt,
     answer |-> NoAnswer, n |-> 0, fallback |-> FALSE, first |-> 1,
     out |-> Outcome("none", NoMessage), cause |-> None, bot |-> <<>>]

\* nothing is in flight
IdleInit ==
    /\ pc = [i \in Invs |-> "idle"]
    /\ inv = [i \in Invs |-> NoInv]
    /\ stack = [i \in Invs |-> <<>>]
    /\ chain = [i \in Invs |-> <<>>]
    /\ cache = [i \in Invs |-> EmptyDict]
    /\ calls = [i \in Invs |-> [f \in Fns |-> 0]]
    /\ rlog = [i \in Invs |-> <<>>]
    /\ error = [i \in Invs |-> NoError]
    /\ requested = [i \in Invs |-> 0]
    /\ results = [i \in Invs |-> <<>>]
    /\ item = [i \in Invs |-> NoAnswer]
    /\ sent = <<>>
    /\ regLog = [i \in Invs |-> <<>>]
    /\ scope = [i \in Invs |-> NewScope]
    /\ dblog = [i \in Invs |-> <<>>]
    /\ singletons = EmptyDict
    /\ injections = <<>>
    /\ adapter = AdapterIdle

\* a Fail that records the error and lets the invocation go on
FailContinues(i, err) ==
    /\ pc' = [pc EXCEPT ![i] = "running"]
    /\ error' = [error EXCEPT ![i] = err]
    /\ stack' = [stack EXCEPT ![i] = <<>>]
    /\ UNCHANGED scopeVars

\* a Fail whose scope is committed before it is closed
FailCommits(i, err) ==
    /\ pc' = [pc EXCEPT ![i] = "failed"]
    /\ error' = [error EXCEPT ![i] = err]
    /\ stack' = [stack EXCEPT ![i] = <<>>]
    /\ scope' = [scope EXCEPT ![i] = CloseScope(@)]
    /\ dblog' = [dblog EXCEPT ![i] =
          @ \o CommitCalls(scope[i]) \o CloseCalls(scope[i])]

\* the exception propagates out of _wrap_function; the finally clause of
\* request_scope closes the scope on the way, commit is skipped
Fail(i, err) ==
    /\ pc' = [pc EXCEPT ![i] = "failed"]
    /\ error' = [error EXCEPT ![i] = err]
    /\ stack' = [stack EXCEPT ![i] = <<>>]
    /\ scope' = [scope EXCEPT ![i] = CloseScope(@)]
    /\ dblog' = [dblog EXCEPT ![i] = @ \o CloseCalls(scope[i])]

\* ---- DependencyContainer: singletons and repositories ------------------
\* an object handed to invocation inv_id for a parameter of the type:
\* id tells objects apart, session is the invocation whose scope's session
\* a repository got, constructed tells whether the constructor ran
Injection(inv_id, type, id, session, constructed) ==
    [inv |-> inv_id, type |-> type, id |-> id, session |-> session,
     constructed |-> constructed]
\* the identity of the next object constructed
NewId(log) == Len(log) + 1

\* a repository kept by the container like a service: the first one
\* constructed is handed out again
RepositoryShared(i, log) ==
    LET made == SelectSeq(log, LAMBDA e : e.type = "repository")
    IN IF made = <<>>
       THEN Injection(i, "repository", NewId(log), i, TRUE)
       ELSE [made[1] EXCEPT !.inv = i, !.constructed = FALSE]

\* type_hint(session=scope.session) for the scope of invocation i
Repository(i, log) == Injection(i, "repository", NewId(log), i, TRUE)

\* reset() in the log
ResetMark == Injection(0, "reset", 0, NoneInt, FALSE)

\* a singleton that constructs on every call
SingletonAlwaysNew(st, log, type) == DictSet(st, type, NewId(log))

\* singleton(cls): if cls not in _singletons: _singletons[cls] = cls()
Singleton(st, log, type) ==
    IF type \notin DOMAIN st THEN DictSet(st, type, NewId(log)) ELSE st

\* reset(): self._singletons = dict()
ContainerReset ==
    /\ Len(SelectSeq(injections, LAMBDA e : e = ResetMark)) < MaxResets
    /\ singletons' = EmptyDict
    /\ injections' = Append(injections, ResetMark)
    /\ UNCHANGED <<world, pc, inv, stack, chain, cache, calls, rlog, error>>
    /\ UNCHANGED <<adapterVars, regVars, procVars, scopeVars>>

\* a resolve_handler that swallows DatabaseNotConfiguredError and goes on
\* to report the parameter as one without dependency information
NotConfiguredMasked(i, top) ==
    Saying(ResolutionError(<<inv[i].handler_name, HandlerParamName(stack[i])>>,
                           HandlerParamName(stack[i]), inv[i].handler_name, None),
           <<NoDependsText, HandlerParamName(stack[i]), inv[i].handler_name>>)

\* scope.session raised DatabaseNotConfiguredError while frame top was
\* binding a parameter: resolve_handler re-raises it with the handler and
\* the parameter appended to its message; out of a resolver function's
\* parameters it is wrapped like any other exception
NotConfigured(i, top) ==
    IF top.kind = "handler"
    THEN Saying(ResolutionError(<<inv[i].handler_name, ParamNames[top.i]>>,
                                ParamNames[top.i], inv[i].handler_name,
                                "DatabaseNotConfiguredError"),
                <<NotConfiguredText, inv[i].handler_name, ParamNames[top.i]>>)
    ELSE Saying(ResolutionError(chain[i], HandlerParamName(stack[i]),
                                inv[i].handler_name,
                                "DatabaseNotConfiguredError"),
                <<FailedText, NotConfiguredText>>)

\* _wrap_function up to the call of resolve_handler: a new RequestScope
Start(i) ==
    /\ pc[i] = "idle"
    /\ \E h \in WorldHandlers, c \in WorldChats :
         inv' = [inv EXCEPT ![i] =
                    [handler_name |-> h.name, params |-> h.params, chat_id |-> c]]
    /\ pc' = [pc EXCEPT ![i] = "resolving"]
    /\ stack' = [stack EXCEPT ![i] = <<HandlerFrame>>]
    /\ UNCHANGED <<adapterVars, containerVars, world, chain, cache, calls, rlog, error>>
    /\ UNCHANGED <<regVars, procVars, scopeVars>>

\* one turn of the parameter loop of resolve_handler or _call_dependency
ResolveParam(i) ==
    /\ pc[i] = "resolving"
    /\ stack[i] # <<>>
    /\ LET top == Top(stack[i])
           params == FrameParams(i, top)
       IN /\ top.i <= Len(params)
          /\ LET p == params[top.i]
                 newChain == IF top.kind = "handler"
                             THEN <<inv[i].handler_name, ParamNames[top.i]>>
                             ELSE Append(chain[i], p.dep.fn)
             IN CASE p.kind = "depends" ->
                      /\ chain' = [chain EXCEPT ![i] = newChain]
                      /\ IF p.dep.fn = None
                         THEN /\ Fail(i, Saying(
                                   Error("DependencyResolutionError", <<>>, None),
                                   <<NoFunctionText>>))
                              /\ UNCHANGED rlog
                         ELSE IF CacheHit(cache[i], p.dep)
                         THEN /\ stack' = [stack EXCEPT ![i] =
                                    Deliver(@, GetDependency(cache[i], p.dep))]
                              /\ rlog' = [rlog EXCEPT ![i] = Append(@,
                                    Resolved(p.dep, GetDependency(cache[i], p.dep), FALSE))]
                              /\ UNCHANGED <<pc, error, scopeVars>>
                         ELSE IF Len(stack[i]) >= MaxDepth
                         THEN \* no frame is left for _call_dependency
                              /\ Fail(i, Saying(
                                   ResolutionError(newChain,
                                       HandlerParamName(stack[i]),
                                       inv[i].handler_name, "RecursionError"),
                                   <<FailedText, "RecursionError">>))
                              /\ UNCHANGED rlog
                         ELSE /\ stack' = [stack EXCEPT ![i] =
                                    Append(@, CallFrame(p.dep))]
                              /\ UNCHANGED <<pc, error, rlog, scopeVars>>
                      /\ UNCHANGED containerVars
                  [] p.kind \in {"update", "context"} ->
                      /\ stack' = [stack EXCEPT ![i] = Deliver(@, p.kind)]
                      /\ UNCHANGED <<pc, error, rlog, chain, scopeVars>>
                      /\ UNCHANGED containerVars
                  [] p.kind = "session" ->
                      /\ IF world.provider
                         THEN /\ stack' = [stack EXCEPT ![i] = Deliver(@, "session")]
                              /\ scope' = [scope EXCEPT ![i] = OpenSession(@)]
                              /\ dblog' = [dblog EXCEPT ![i] = @ \o OpenCalls(scope[i])]
                              /\ UNCHANGED <<pc, error, rlog, chain>>
                         ELSE /\ Fail(i, NotConfigured(i, top))
                              /\ UNCHANGED <<rlog, chain>>
                      /\ UNCHANGED containerVars
                  [] p.kind = "service" ->
                      \* a BaseService subclass: container.singleton(type_hint)
                      /\ stack' = [stack EXCEPT ![i] = Deliver(@, "service")]
                      /\ singletons' = Singleton(singletons, injections, "service")
                      /\ injections' = Append(injections,
                            Injection(i, "service",
                                      Singleton(singletons, injections, "service")["service"],
                                      NoneInt, "service" \notin DOMAIN singletons))
                      /\ UNCHANGED <<pc, error, rlog, chain, scopeVars>>
                  [] p.kind = "repository" ->
                      \* a BaseRepository subclass: type_hint(session=scope.session)
                      IF world.provider
                      THEN /\ stack' = [stack EXCEPT ![i] = Deliver(@, "repository")]
                           /\ scope' = [scope EXCEPT ![i] = OpenSession(@)]
                           /\ dblog' = [dblog EXCEPT ![i] = @ \o OpenCalls(scope[i])]
                           /\ injections' = Append(injections,
                                 Repository(i, injections))
                           /\ UNCHANGED <<pc, error, rlog, chain, singletons>>
                      ELSE /\ Fail(i, NotConfigured(i, top))
                           /\ UNCHANGED <<rlog, chain, containerVars>>
                  [] p.kind \in {"plain", "unannotated"} ->
                      /\ IF top.kind = "handler"
                         THEN /\ Fail(i, Saying(
                                   ResolutionError(
                                       <<inv[i].handler_name, ParamNames[top.i]>>,
                                       HandlerParamName(stack[i]),
                                       inv[i].handler_name, None),
                                   <<NoDependsText, ParamNames[top.i],
                                     inv[i].handler_name>>))
                              /\ UNCHANGED <<rlog, chain>>
                         ELSE /\ stack' = [stack EXCEPT ![i] = LeaveUnbound(@)]
                              /\ UNCHANGED <<pc, error, rlog, chain, scopeVars>>
                      /\ UNCHANGED containerVars
    /\ UNCHANGED <<adapterVars, world, inv, cache, calls>>
    /\ UNCHANGED <<regVars, procVars>>

\* the end of _call_dependency: the resolver function is called with the
\* bound arguments; resolve_dependency caches and returns its result
Invoke(i) ==
    /\ pc[i] = "resolving"
    /\ stack[i] # <<>>
    /\ LET top == Top(stack[i])
       IN /\ top.kind = "call"
          /\ top.i > Len(world.sig[top.fn])
          /\ IF top.unbound
             THEN \* TypeError: a required argument is missing
                  /\ Fail(i, Saying(
                          ResolutionError(chain[i], HandlerParamName(stack[i]),
                                          inv[i].handler_name, "TypeError"),
                          <<FailedText, "TypeError">>))
                  /\ UNCHANGED <<calls, cache, rlog>>
             ELSE \E out \in WorldReturns \cup {Raise} :
                  /\ calls' = [calls EXCEPT ![i][top.fn] = @ + 1]
                  /\ IF out = Raise
                     THEN /\ Fail(i, Saying(
                                 ResolutionError(chain[i], HandlerParamName(stack[i]),
                                                 inv[i].handler_name, "Exception"),
                                 <<FailedText, "Exception">>))
                          /\ cache' = [cache EXCEPT ![i] = CallRaised(@, top)]
                          /\ UNCHANGED rlog
                     ELSE /\ stack' = [stack EXCEPT ![i] = Deliver(Pop(@), out)]
                          /\ cache' = [cache EXCEPT ![i] =
                                IF top.use_cache
                                THEN CacheDependency(@, top.fn, out) ELSE @]
                          /\ rlog' = [rlog EXCEPT ![i] = Append(@,
                                Resolved(Depends(top.fn, top.use_cache), out, TRUE))]
                          /\ UNCHANGED <<pc, error, scopeVars>>
    /\ UNCHANGED <<adapterVars, containerVars, world, inv, chain>>
    /\ UNCHANGED <<regVars, procVars>>

\* resolve_handler returns kwargs; _wrap_function creates the generator
\* and asks the update for its chat id
FinishResolve(i) ==
    /\ pc[i] = "resolving"
    /\ stack[i] # <<>>
    /\ LET top == Top(stack[i])
       IN /\ top.kind = "handler"
          /\ top.i > Len(inv[i].params)
    /\ IF inv[i].chat_id = NoneInt
       THEN Fail(i, Error("ChatIdNotFoundError", <<>>, None))
       ELSE /\ pc' = [pc EXCEPT ![i] = "running"]
            /\ UNCHANGED <<error, stack, scopeVars>>
    /\ UNCHANGED <<adapterVars, containerVars, world, inv, chain, cache, calls, rlog>>
    /\ UNCHANGED <<regVars, procVars>>

\* ---- resolution under test ---------------------------------------------
DIWorlds == {World("resolution", sg, d) : sg \in Signatures, d \in BOOLEAN}

DIInit ==
    /\ RegInit
    /\ IdleInit
    /\ world \in DIWorlds

DINext ==
    \/ Start(1)
    \/ ResolveParam(1)
    \/ Invoke(1)
    \/ FinishResolve(1)

DISpec == DIInit /\ [][DINext]_vars
\* the program of a behaviour that only registers
NoWorld == World("registry", [f \in Fns |-> <<>>], FALSE)

RegNext == Register /\ UNCHANGED <<diVars, procVars, scopeVars, adapterVars>>

RegistryInit ==
    /\ RegInit
    /\ IdleInit
    /\ world = NoWorld

RegistrySpec == RegistryInit /\ [][RegNext]_vars


\* ---- answers and the transport port ------------------------------------
\* the fields of a BaseAnswer the processor and the registry read
AnswerOf(type, message_id, message_key, handler_name, metadata) ==
    [type |-> type, message_id |-> message_id, message_key |-> message_key,
     handler_name |-> handler_name, metadata |-> metadata]

\* isinstance(answer, EditAnswer)
IsEdit(answer) == answer.type = "EditAnswer"

\* what a handler body may yield
Yields ==
    {AnswerOf("Answer", NoneInt, k, None, None) : k \in Keys \cup {None}}
    \cup {AnswerOf("Answer", NoneInt, None, "h2", "m1")}
    \cup {AnswerOf("EditAnswer", m, k, None, None) :
        m \in {NoneInt, 1}, k \in Keys \cup {None}}
    \cup {AnswerOf("EmptyAnswer", NoneInt, None, None, None)}

\* what the handlers of the program yield
WorldYields ==
    IF world.kind = "scope"
    THEN {AnswerOf("Answer", NoneInt, None, None, None)}
    ELSE IF world.kind = "concurrent"
    THEN {AnswerOf("Answer", NoneInt, k, None, None) : k \in Keys \cup {None}}
         \cup {AnswerOf("EditAnswer", NoneInt, "k1", None, None)}
    ELSE IF world.kind = "followup"
    THEN {AnswerOf("Answer", NoneInt, None, None, None),
          AnswerOf("EditAnswer", NoneInt, None, None, None)}
    ELSE Yields

\* the items the handler bodies of one behaviour yield at most
ItemCap ==
    IF world.kind \in {"concurrent", "followup"} THEN MaxConcItems
    ELSE MaxItems

\* the dates of the messages the transport returns: one date, or, where the
\* order of the dates matters, any date not before those already registered
WorldDates ==
    IF world.kind = "followup"
    THEN {d \in Timestamps :
             \A c \in DOMAIN registry : \A k \in 1..Len(registry[c]) :
                 registry[c][k].timestamp <= d}
    ELSE {1}

\* how a call on the port ends: a Message, None, or an exception
TransportOutcomes(chat_id) ==
    {Outcome("message", Message(m, chat_id, d)) :
        m \in MessageIds, d \in WorldDates}
    \cup {Outcome("none", NoMessage), Outcome("raise", NoMessage)}

\* a call client.send(chat_id, answer) or client.edit(chat_id, message_id,
\* answer), made by invocation i for its n-th item
PortCall(i, n, method, chat_id, message_id, answer) ==
    [inv |-> i, n |-> n, method |-> method, chat_id |-> chat_id,
     message_id |-> message_id, answer |-> answer]

\* a CallFor that edits the id the item names and never asks the registry
CallForDirectIdOnly(st, i, n, answer) ==
    IF IsEdit(answer)
    THEN PortCall(i, n, "edit", inv[i].chat_id, answer.message_id, answer)
    ELSE PortCall(i, n, "send", inv[i].chat_id, NoneInt, answer)

\* _process_single_response up to its await: the call it makes on the port
CallFor(st, i, n, answer) ==
    IF IsEdit(answer)
    THEN PortCall(i, n, "edit", inv[i].chat_id,
                  FindMessageToEdit(st, answer, inv[i].chat_id, inv[i].handler_name),
                  answer)
    ELSE PortCall(i, n, "send", inv[i].chat_id, NoneInt, answer)

\* ---- one invocation: the response processor ----------------------------
TotalRequested == requested[1] + requested[2]

\* a CanRequest that does not wait for the item in flight
CanRequestWhileAwaiting(i) == pc[i] \in {"running", "awaiting"}

\* the processor asks the generator for its next item
CanRequest(i) == pc[i] = "running"

\* async for: the handler body runs to its next yield, and
\* _process_single_response calls the port
NextItem(i) ==
    /\ CanRequest(i)
    /\ TotalRequested < ItemCap
    /\ \E answer \in WorldYields :
         /\ item' = [item EXCEPT ![i] = answer]
         /\ sent' = Append(sent, CallFor(Reg, i, requested[i] + 1, answer))
    /\ requested' = [requested EXCEPT ![i] = @ + 1]
    /\ pc' = [pc EXCEPT ![i] = "awaiting"]
    /\ UNCHANGED <<results, regLog>>
    /\ UNCHANGED <<adapterVars, containerVars, world, inv, stack, chain, cache, calls, rlog, error>>
    /\ UNCHANGED <<regVars, scopeVars>>

\* the handler body returns: process_async_generator returns,
\* request_scope commits and, in its finally clause, closes the scope;
\* session.commit() may raise
GeneratorReturns(i) ==
    /\ CanRequest(i)
    /\ \/ /\ pc' = [pc EXCEPT ![i] = "done"]
          /\ dblog' = [dblog EXCEPT ![i] =
                @ \o CommitCalls(scope[i]) \o CloseCalls(scope[i])]
          /\ UNCHANGED error
       \/ /\ scope[i].session
          /\ pc' = [pc EXCEPT ![i] = "failed"]
          /\ error' = [error EXCEPT ![i] = Error("CommitError", <<>>, None)]
          /\ dblog' = [dblog EXCEPT ![i] =
                @ \o <<"commit raised">> \o CloseCalls(scope[i])]
    /\ scope' = [scope EXCEPT ![i] = CloseScope(@)]
    /\ UNCHANGED <<adapterVars, containerVars, world, inv, stack, chain, cache, calls, rlog>>
    /\ UNCHANGED <<regVars, procVars>>

\* the handler body raises: the exception leaves the async for
GeneratorRaises(i) ==
    /\ CanRequest(i)
    /\ Fail(i, Error("HandlerError", <<>>, None))
    /\ UNCHANGED <<adapterVars, containerVars, world, inv, chain, cache, calls, rlog>>
    /\ UNCHANGED <<regVars, procVars>>

\* an ItemRegistered that books every record under the running handler
ItemRegisteredIgnoresOverride(i, message) ==
    LET handler_name == inv[i].handler_name
        record == NewRecord(message, handler_name, item[i].metadata, 1,
                            count[message.chat_id] + 1)
    IN /\ SetRegistry(RegisterMessage(Reg, record, handler_name, item[i].message_key))
       /\ old_record' = OldRecord(Reg, message.chat_id)
       /\ last_call' = RegisterCall(key_registry, item[i].message_key)
       /\ UNCHANGED registering
       /\ lookup' = NoLookup
       /\ count' = [count EXCEPT ![message.chat_id] = @ + 1]
       /\ regLog' = [regLog EXCEPT ![i] = Append(@, [n |-> requested[i], record |-> record])]
       /\ pc' = [pc EXCEPT ![i] = "running"]
       /\ UNCHANGED <<error, stack, scopeVars>>

\* the port returned a Message: register_message(message,
\* answer.handler_name or handler_name, answer.message_key, answer.metadata)
ItemRegistered(i, message) ==
    LET handler_name == Or(item[i].handler_name, inv[i].handler_name)
        record == NewRecord(message, handler_name, item[i].metadata, 1,
                            count[message.chat_id] + 1)
    IN /\ SetRegistry(RegisterMessage(Reg, record, handler_name, item[i].message_key))
       /\ old_record' = OldRecord(Reg, message.chat_id)
       /\ last_call' = RegisterCall(key_registry, item[i].message_key)
       /\ UNCHANGED registering
       /\ lookup' = NoLookup
       /\ count' = [count EXCEPT ![message.chat_id] = @ + 1]
       /\ regLog' = [regLog EXCEPT ![i] = Append(@, [n |-> requested[i], record |-> record])]
       /\ pc' = [pc EXCEPT ![i] = "running"]
       /\ UNCHANGED <<error, stack, scopeVars>>

\* the port returned None: nothing to register
ItemNotSent(i) ==
    /\ pc' = [pc EXCEPT ![i] = "running"]
    /\ UNCHANGED <<error, stack, regLog>>
    /\ UNCHANGED <<regVars, scopeVars>>

\* an ItemFailed without the except clause: the error leaves the loop
ItemFailedAborts(i) ==
    /\ Fail(i, Error("ResponseProcessingError", <<>>, "Exception"))
    /\ UNCHANGED regLog
    /\ UNCHANGED regVars

\* the port raised: ResponseProcessingError, caught by the loop (continue)
ItemFailed(i) ==
    /\ pc' = [pc EXCEPT ![i] = "running"]
    /\ UNCHANGED <<error, stack, regLog>>
    /\ UNCHANGED <<regVars, scopeVars>>

\* the awaited send/edit ends and _process_single_response finishes
TransportReturns(i) ==
    /\ pc[i] = "awaiting"
    /\ \E out \in TransportOutcomes(inv[i].chat_id) :
         /\ results' = [results EXCEPT ![i] = Append(@, out)]
         /\ CASE out.tag = "message" -> ItemRegistered(i, out.message)
              [] out.tag = "none" -> ItemNotSent(i)
              [] out.tag = "raise" -> ItemFailed(i)
    /\ item' = [item EXCEPT ![i] = NoAnswer]
    /\ UNCHANGED <<requested, sent>>
    /\ UNCHANGED <<adapterVars, containerVars, world, inv, chain, cache, calls, rlog>>

\* ---- the router: invocations one after the other -----------------------
Ended(i) == pc[i] \in {"idle", "done", "failed"}

\* an application with an empty registry and no database provider
Init ==
    /\ RegInit
    /\ IdleInit
    /\ world = World("router", [f \in Fns |-> <<>>], FALSE)

\* the application hands the next update to the router once the handler
\* of the previous one has ended; invocations are numbered in this order
Dispatch(i) ==
    /\ \A j \in Invs \ {i} : Ended(j)
    /\ \A j \in Invs : j < i => pc[j] # "idle"
    /\ Start(i)

Next ==
    \/ \E i \in Invs : Dispatch(i)
    \/ \E i \in Invs : ResolveParam(i)
    \/ \E i \in Invs : Invoke(i)
    \/ \E i \in Invs : FinishResolve(i)
    \/ \E i \in Invs : NextItem(i)
    \/ \E i \in Invs : GeneratorReturns(i)
    \/ \E i \in Invs : GeneratorRaises(i)
    \/ \E i \in Invs : TransportReturns(i)

Spec == Init /\ [][Next]_vars

\* ---- resolution attempted again ----------------------------------------
\* the handlers of DIWorlds behind the router: an update whose resolution
\* failed is followed by another update for the same handlers
RetryNext ==
    \/ \E i \in Invs : Dispatch(i)
    \/ \E i \in Invs : ResolveParam(i)
    \/ \E i \in Invs : Invoke(i)
    \/ \E i \in Invs : FinishResolve(i)

RetrySpec == DIInit /\ [][RetryNext]_vars

\* ---- the session of the scope under test --------------------------------
\* the task running the invocation is cancelled at one of its awaits:
\* CancelledError leaves _wrap_function through request_scope
Cancel(i) ==
    /\ pc[i] \in {"resolving", "running", "awaiting"}
    /\ Fail(i, Error("CancelledError", <<>>, None))
    /\ UNCHANGED <<adapterVars, containerVars, world, inv, chain, cache, calls, rlog>>
    /\ UNCHANGED <<regVars, procVars>>

\* the scope of an ended invocation is garbage collected: __del__
Finalize(i) ==
    /\ pc[i] \in {"done", "failed"}
    /\ ~scope[i].deleted
    /\ scope' = [scope EXCEPT ![i] = DelScope(@)]
    /\ dblog' = [dblog EXCEPT ![i] = @ \o DelCalls(scope[i])]
    /\ UNCHANGED <<regVars, diVars, procVars, adapterVars>>

\* applications with and without a database provider, whose resolver outer
\* does or does not take the session
ScopeWorlds ==
    {World("scope", [f \in Fns |-> IF f = "outer" THEN ps ELSE <<>>], d) :
        ps \in {<<>>, <<SessionParam>>}, d \in BOOLEAN}

ScopeInit ==
    /\ RegInit
    /\ IdleInit
    /\ world \in ScopeWorlds

\* the next update is dispatched when the scopes of the ended invocations
\* have been collected
DispatchCollected(i) ==
    /\ \A j \in Invs : pc[j] \in {"done", "failed"} => scope[j].deleted
    /\ Dispatch(i)

ScopeNext ==
    \/ \E i \in Invs : DispatchCollected(i)
    \/ \E i \in Invs : ResolveParam(i)
    \/ \E i \in Invs : Invoke(i)
    \/ \E i \in Invs : FinishResolve(i)
    \/ \E i \in Invs : NextItem(i)
    \/ \E i \in Invs : GeneratorReturns(i)
    \/ \E i \in Invs : GeneratorRaises(i)
    \/ \E i \in Invs : TransportReturns(i)
    \/ \E i \in Invs : Cancel(i)
    \/ \E i \in Invs : Finalize(i)

ScopeSpec == ScopeInit /\ [][ScopeNext]_vars

\* ---- services and repositories, updates handled concurrently ----------
\* applications with and without a database provider, whose resolver outer
\* takes a service or a repository
InjectWorlds ==
    {World("inject", [f \in Fns |-> IF f = "outer" THEN ps ELSE <<>>], d) :
        ps \in {<<ServiceParam>>, <<RepositoryParam>>}, d \in BOOLEAN}

InjectInit ==
    /\ RegInit
    /\ IdleInit
    /\ world \in InjectWorlds

\* the application creates a task per update: the next update is
\* dispatched while the handler of the previous one may still be running
DispatchConcurrent(i) ==
    /\ \A j \in Invs : j < i => pc[j] # "idle"
    /\ Start(i)

InjectNext ==
    \/ \E i \in Invs : DispatchConcurrent(i)
    \/ \E i \in Invs : ResolveParam(i)
    \/ \E i \in Invs : Invoke(i)
    \/ \E i \in Invs : FinishResolve(i)
    \/ \E i \in Invs : GeneratorReturns(i)
    \/ \E i \in Invs : GeneratorRaises(i)
    \/ ContainerReset

InjectSpec == InjectInit /\ [][InjectNext]_vars

\* ---- resolver functions that depend on each other ----------------------
CycleWorlds == {World("cycle", sg, FALSE) : sg \in CycleSignatures}

CycleInit ==
    /\ RegInit
    /\ IdleInit
    /\ world \in CycleWorlds

CycleNext ==
    \/ \E i \in Invs : Dispatch(i)
    \/ \E i \in Invs : ResolveParam(i)
    \/ \E i \in Invs : Invoke(i)
    \/ \E i \in Invs : FinishResolve(i)

\* the event loop runs a task that can run: resolution has no await that
\* waits for anything outside
CycleSpec == CycleInit /\ [][CycleNext]_vars /\ WF_vars(CycleNext)

\* ---- one registry, updates handled concurrently -------------------------
\* two updates of one chat for a handler that sends, sends with a key, or
\* edits by key
ConcInit ==
    /\ RegInit
    /\ IdleInit
    /\ world = World("concurrent", [f \in Fns |-> <<>>], FALSE)

ConcNext ==
    \/ \E i \in Invs : DispatchConcurrent(i)
    \/ \E i \in Invs : ResolveParam(i)
    \/ \E i \in Invs : FinishResolve(i)
    \/ \E i \in Invs : NextItem(i)
    \/ \E i \in Invs : GeneratorReturns(i)
    \/ \E i \in Invs : GeneratorRaises(i)
    \/ \E i \in Invs : TransportReturns(i)

ConcSpec == ConcInit /\ [][ConcNext]_vars

\* ---- registrations and lookups -----------------------------------------
\* one call of a lookup
Lookup ==
    /\ \E q \in Queries :
         /\ lookup' = Looked(q, Ask(Reg, q))
         /\ SetRegistry(AfterLookup(Reg, q))
    /\ UNCHANGED <<count, old_record, last_call, registering>>
    /\ UNCHANGED <<diVars, procVars, scopeVars, adapterVars>>

LookupInit ==
    /\ RegInit
    /\ IdleInit
    /\ world = NoWorld

LookupNext ==
    \/ RegNext
    \/ Lookup

LookupSpec == LookupInit /\ [][LookupNext]_vars

\* ---- a send followed by an edit, updates handled concurrently ------------
\* updates of one chat for handlers that send and then edit without hints
FollowupInit ==
    /\ RegInit
    /\ IdleInit
    /\ world = World("followup", [f \in Fns |-> <<>>], FALSE)

FollowupNext ==
    \/ \E i \in Invs : DispatchConcurrent(i)
    \/ \E i \in Invs : ResolveParam(i)
    \/ \E i \in Invs : FinishResolve(i)
    \/ \E i \in Invs : NextItem(i)
    \/ \E i \in Invs : GeneratorReturns(i)
    \/ \E i \in Invs : GeneratorRaises(i)
    \/ \E i \in Invs : TransportReturns(i)

FollowupSpec == FollowupInit /\ [][FollowupNext]_vars

\* ---- resolve_handler called again on the same scope ---------------------
\* the caller that got a DependencyResolutionError from resolve_handler
\* calls it again with the same handler and the same RequestScope; the
\* scope keeps its cache
ResolveAgain(i) ==
    /\ pc[i] = "failed"
    /\ error[i].type = "DependencyResolutionError"
    /\ Len(rlog[i]) < MaxResolved
    /\ \A f \in Fns : calls[i][f] < MaxResolved
    /\ pc' = [pc EXCEPT ![i] = "resolving"]
    /\ stack' = [stack EXCEPT ![i] = <<HandlerFrame>>]
    /\ error' = [error EXCEPT ![i] = NoError]
    /\ UNCHANGED <<adapterVars, containerVars, world, inv, chain, cache, calls, rlog>>
    /\ UNCHANGED <<regVars, procVars, scopeVars>>

SameScopeNext ==
    \/ Start(1)
    \/ ResolveParam(1)
    \/ Invoke(1)
    \/ FinishResolve(1)
    \/ ResolveAgain(1)

SameScopeSpec == DIInit /\ [][SameScopeNext]_vars

\* ---- register_message, statement by statement ---------------------------
\* the record is built, the chat's deque created if absent, and old_record
\* read
EnterRegister ==
    /\ registering.at = "idle"
    /\ TotalCount < MaxRegs
    /\ \E message_id \in MessageIds, chat_id \in Chats,
          date \in Timestamps \cup {NoneInt}, now \in Timestamps,
          handler_name \in HandlerNames \cup {None},
          key \in Keys \cup {None}, metadata \in {None} :
         LET message == Message(message_id, chat_id, date)
             record == NewRecord(message, handler_name, metadata, now,
                                 count[chat_id] + 1)
         IN /\ date = NoneInt \/ now = 1
            /\ registry' = IF chat_id \in DOMAIN registry THEN registry
                           ELSE DictSet(registry, chat_id, <<>>)
            /\ old_record' = OldRecord(Reg, chat_id)
            /\ last_call' = RegisterCall(key_registry, key)
            /\ count' = [count EXCEPT ![chat_id] = @ + 1]
            /\ registering' = Registering("append", record, handler_name, key)
            /\ lookup' = NoLookup
    /\ UNCHANGED <<key_registry, handler_registry>>
    /\ UNCHANGED <<diVars, procVars, scopeVars, adapterVars>>

\* self._registry[message.chat_id].append(record)
AppendRecord ==
    /\ registering.at = "append"
    /\ LET chat == registering.record.chat_id
       IN registry' = DictSet(registry, chat,
              DequeAppend(registry[chat], registering.record, MaxPerChat))
    /\ registering' = [registering EXCEPT !.at = "cleanup"]
    /\ UNCHANGED <<key_registry, handler_registry, count, old_record, last_call,
                   lookup>>
    /\ UNCHANGED <<diVars, procVars, scopeVars, adapterVars>>

\* if old_record: self._cleanup_record_references(old_record)
CleanupOldRecord ==
    /\ registering.at = "cleanup"
    /\ SetRegistry(IF old_record # NoRecord
                   THEN CleanupRecordReferences(Reg, old_record)
                   ELSE Reg)
    /\ registering' = [registering EXCEPT !.at = "index"]
    /\ UNCHANGED <<count, old_record, last_call, lookup>>
    /\ UNCHANGED <<diVars, procVars, scopeVars, adapterVars>>

\* the key and the handler entries of the new record; return record
IndexRecord ==
    /\ registering.at = "index"
    /\ key_registry' = AddKey(key_registry, registering.key, registering.record)
    /\ handler_registry' = AddHandler(handler_registry,
                               registering.handler_name, registering.record)
    /\ registering' = NotRegistering
    /\ UNCHANGED <<registry, count, old_record, last_call, lookup>>
    /\ UNCHANGED <<diVars, procVars, scopeVars, adapterVars>>

RegStepInit ==
    /\ RegInit
    /\ IdleInit
    /\ world = NoWorld

RegStepNext ==
    \/ EnterRegister
    \/ AppendRecord
    \/ CleanupOldRecord
    \/ IndexRecord

RegStepSpec == RegStepInit /\ [][RegStepNext]_vars

\* ---- PTBBotAdapter -------------------------------------------------------
\* a call on the PTB Bot: self._bot.send_message / self._bot.edit_message_text
BotCall(method, chat_id, message_id) ==
    [method |-> method, chat_id |-> chat_id, message_id |-> message_id]

\* the answers edit() may be handed
AdapterAnswers ==
    {AnswerOf("Answer", NoneInt, None, None, None),
     AnswerOf("EditAnswer", NoneInt, None, None, None),
     AnswerOf("EditAnswer", NoneInt, "k1", None, None)}

\* edit(chat_id, message_id, answer) is entered: the isinstance check, then
\* the first await on the bot
EnterEdit(a, chat_id, message_id, answer) ==
    LET call == [a EXCEPT !.chat_id = chat_id, !.message_id = message_id,
                          !.answer = answer, !.n = @ + 1, !.fallback = FALSE,
                          !.first = Len(a.bot) + 1,
                          !.out = Outcome("none", NoMessage), !.cause = None]
    IN  IF ~IsEdit(answer)
        THEN [call EXCEPT !.pc = "raised", !.cause = "BottyError"]
        ELSE IF message_id = NoneInt
        THEN [call EXCEPT !.pc = "send_message",
                  !.bot = Append(@, BotCall("send_message", chat_id, NoneInt))]
        ELSE [call EXCEPT !.pc = "edit_message_text",
                  !.bot = Append(@, BotCall("edit_message_text", chat_id,
                                            message_id))]

\* an edit() whose except clause lets the error of edit_message_text out
EditFailedPropagates(a) ==
    [a EXCEPT !.pc = "raised", !.cause = "edit_message_text"]

\* except Exception: fall back to sending a new message
EditFailed(a) ==
    [a EXCEPT !.pc = "send_message", !.fallback = TRUE,
              !.bot = Append(@, BotCall("send_message", a.chat_id, NoneInt))]

AdapterEdit ==
    /\ adapter.pc \notin {"send_message", "edit_message_text"}
    /\ adapter.n < MaxEdits
    /\ \E c \in Chats, m \in MessageIds \cup {NoneInt}, a \in AdapterAnswers :
           adapter' = EnterEdit(adapter, c, m, a)
    /\ UNCHANGED <<regVars, diVars, procVars, scopeVars>>

\* await self._bot.edit_message_text(...) ends: with a message, with a falsy
\* result (logged), or with an exception
EditMessageTextReturns ==
    /\ adapter.pc = "edit_message_text"
    /\ \E result \in {"message", "falsy", "raise"} :
           adapter' = IF result = "raise"
                      THEN EditFailed(adapter)
                      ELSE [adapter EXCEPT !.pc = "returned",
                                !.out = Outcome("none", NoMessage)]
    /\ UNCHANGED <<regVars, diVars, procVars, scopeVars>>

\* await self._bot.send_message(...) ends: with the sent message, which
\* Message.from_telegram converts, or with an exception
SendMessageReturns ==
    /\ adapter.pc = "send_message"
    /\ \/ \E m \in MessageIds :
              adapter' = [adapter EXCEPT !.pc = "returned",
                  !.out = Outcome("message", Message(m, adapter.chat_id, 1))]
       \/ adapter' = [adapter EXCEPT !.pc = "raised",
                                     !.cause = "send_message"]
    /\ UNCHANGED <<regVars, diVars, procVars, scopeVars>>

AdapterInit ==
    /\ RegInit
    /\ IdleInit
    /\ world = NoWorld

AdapterNext ==
    \/ AdapterEdit
    \/ EditMessageTextReturns
    \/ SendMessageReturns

AdapterSpec == AdapterInit /\ [][AdapterNext]_vars

\* ---- registry properties -----------------------------------------------
\* the chat's deque, empty when the chat has no entry
Fifo(c) == DictGet(registry, c, <<>>)

SeqElems(s) == {s[i] : i \in 1..Len(s)}

\* the record objects the key index and the handler index hold
KeyIndexed == {key_registry[k] : k \in DOMAIN key_registry}
HandlerIndexed ==
    UNION {SeqElems(handler_registry[h]) : h \in DOMAIN handler_registry}

InOwnFifo(r) == r \in SeqElems(Fifo(r.chat_id))

\* hints and handler names the lookups are asked with; "h3" has no record
AllHints ==
    {EditHints(m, k, h) : m \in MessageIds \cup {NoneInt},
                          k \in Keys \cup {None},
                          h \in HandlerNames \cup {None}}
CurrentHandlers == HandlerNames \cup {"h3"}

\* the handler's most recently registered record of the chat, by
\* registration order
LatestOfHandler(h, c) ==
    LET cands == {r \in SeqElems(DictGet(handler_registry, h, <<>>)) :
                      r.chat_id = c}
    IN IF cands = {} THEN NoRecord
       ELSE CHOOSE r \in cands : \A q \in cands : q.seq <= r.seq

\* the five steps of the lookup as the priority list states them
ReferenceFind(answer, c, h) ==
    LET byKey == IF answer.message_key # None
                 THEN DictGet(key_registry, answer.message_key, NoRecord)
                 ELSE NoRecord
        byOrigin == IF answer.handler_name # None
                    THEN LatestOfHandler(answer.handler_name, c) ELSE NoRecord
        byCurrent == LatestOfHandler(h, c)
    IN IF answer.message_id # NoneInt THEN answer.message_id
       ELSE IF byKey # NoRecord /\ byKey.chat_id = c THEN byKey.message_id
       ELSE IF byOrigin # NoRecord THEN byOrigin.message_id
       ELSE IF byCurrent # NoRecord THEN byCurrent.message_id
       ELSE IF Fifo(c) # <<>> THEN Fifo(c)[Len(Fifo(c))].message_id
       ELSE NoneInt

\* C1: for every registry state and every combination of hints,
\* find_message_to_edit returns what the five-step priority procedure
\* returns, where a handler's candidate is its most recently registered
\* record of the chat.
C1_FindFollowsPriorityProcedure ==
    \A answer \in AllHints, c \in Chats, h \in CurrentHandlers :
        FindMessageToEdit(Reg, answer, c, h) = ReferenceFind(answer, c, h)

\* C2: a register call on a chat that is at capacity removes exactly the
\* oldest record of that chat's deque, appends the new one, and leaves the
\* evicted record reachable from neither index: its key is absent or maps
\* to the new record, get_by_handler of its handler does not hold it, and
\* no handler entry is left with an empty list.
C2_EvictionRemovesOldestFromIndexes ==
    [][\A c \in Chats :
         (count'[c] = count[c] + 1 /\ Len(Fifo(c)) = MaxPerChat) =>
            LET old == Fifo(c)[1]
                new == registry'[c][Len(registry'[c])]
            IN /\ registry'[c] = Tail(Fifo(c)) \o <<new>>
               /\ new.seq = count'[c]
               /\ \A d \in Chats \ {c} : d \in DOMAIN registry =>
                      registry'[d] = registry[d]
               /\ \A k \in DOMAIN key_registry :
                      key_registry[k] = old =>
                          GetByKey(Reg', k) \in {NoRecord, new}
               /\ \A k \in DOMAIN key_registry' : key_registry'[k] # old
               /\ old \notin SeqElems(
                      GetByHandler(Reg', old.handler_name, NoneInt, NoneInt))
               /\ \A h \in DOMAIN handler_registry' :
                      /\ old \notin SeqElems(handler_registry'[h])
                      /\ handler_registry'[h] # <<>>
      ]_regVars

\* an eviction has just removed a record that had a handler entry
C2_Witness ==
    /\ old_record # NoRecord
    /\ old_record.handler_name \in HandlerNames
    /\ old_record.handler_name \notin DOMAIN handler_registry

\* C3: every record reachable from the key index or from the handler index
\* is present in the deque of its own chat.
C3_IndexedRecordsAreInFifo ==
    \A r \in KeyIndexed \cup HandlerIndexed : InOwnFifo(r)

\* after an eviction both indexes still hold records
C3_Witness ==
    /\ old_record # NoRecord
    /\ KeyIndexed # {}
    /\ HandlerIndexed # {}

\* C4: each chat's deque holds at most MaxPerChat records, exactly the
\* most recently registered ones of the chat in registration order;
\* get_all_for_chat lists them newest first and get_last_message returns
\* the newest.
C4_FifoHoldsNewestInOrder ==
    \A c \in Chats :
        LET n == Len(Fifo(c))
        IN /\ n = Min(count[c], MaxPerChat)
           /\ \A i \in 1..n :
                  /\ Fifo(c)[i].chat_id = c
                  /\ Fifo(c)[i].seq = count[c] - n + i
           /\ GetAllForChat(Reg, c, NoneInt) = Reverse(Fifo(c))
           /\ GetLastMessage(Reg, c) =
                  (IF n = 0 THEN NoRecord ELSE Fifo(c)[n])

\* a chat that has seen more registrations than it can hold
C4_Witness ==
    \E c \in Chats : count[c] > MaxPerChat /\ Len(Fifo(c)) = MaxPerChat

\* ---- resolution properties ---------------------------------------------
\* C5: within one request scope, of two resolves of a use_cache=true marker
\* the second does not invoke the resolver function and returns the value
\* of the first, whatever that value is; every resolve of a
\* use_cache=false marker invokes the resolver function.
C5_CachedMarkerInvokedOnce ==
    \A i \in Invs :
        /\ \A j, k \in 1..Len(rlog[i]) :
               (j < k /\ rlog[i][j].fn = rlog[i][k].fn
                      /\ rlog[i][j].use_cache /\ rlog[i][k].use_cache) =>
                   /\ ~rlog[i][k].invoked
                   /\ rlog[i][k].value = rlog[i][j].value
        /\ \A k \in 1..Len(rlog[i]) :
               ~rlog[i][k].use_cache => rlog[i][k].invoked

\* C6: an outer marker with use_cache=false whose parameter carries an
\* inner marker with use_cache=true, resolved twice in one scope: the
\* inner resolver has run once and the outer resolver twice.
C6_NestedMarkersKeepOwnCacheSetting ==
    \A i \in Invs :
        (/\ pc[i] = "running"
         /\ inv[i].params = <<DependsParam("outer", FALSE), DependsParam("outer", FALSE)>>
         /\ world.sig["outer"] = <<DependsParam("inner", TRUE)>>) =>
            /\ calls[i]["inner"] = 1
            /\ calls[i]["outer"] = 2

\* ---- properties of the response processor and the router ---------------
\* the calls invocation i made on the port, in call order
SentBy(i) == SelectSeq(sent, LAMBDA e : e.inv = i)

\* the items of invocation i whose call returned a Message
Delivered(i) == {n \in 1..Len(results[i]) : results[i][n].tag = "message"}

\* the positions of a record (by identity) in its chat's FIFO
PositionsOf(record) ==
    {p \in DOMAIN Fifo(record.chat_id) : Fifo(record.chat_id)[p] = record}

C7_OneAtATime ==
    \A i \in Invs :
        /\ Len(results[i]) <= requested[i]
        /\ requested[i] <= Len(results[i]) + 1
        /\ Len(SentBy(i)) = requested[i]
        /\ \A n \in 1..Len(SentBy(i)) : SentBy(i)[n].n = n
        /\ {regLog[i][k].n : k \in 1..Len(regLog[i])} = Delivered(i)
        /\ \A k \in 2..Len(regLog[i]) :
             /\ regLog[i][k - 1].n < regLog[i][k].n
             /\ \A p \in PositionsOf(regLog[i][k - 1].record),
                   q \in PositionsOf(regLog[i][k].record) : p < q

C7_PlainSends ==
    \A i \in Invs :
        (/\ Len(results[i]) = requested[i]
         /\ Delivered(i) = 1..requested[i]
         /\ \A n \in 1..requested[i] : SentBy(i)[n].answer.type = "Answer")
        => /\ Len(regLog[i]) = requested[i]
           /\ \A n \in 1..requested[i] :
                /\ SentBy(i)[n].method = "send"
                /\ regLog[i][n].n = n

C7_RequestStep ==
    \A i \in Invs :
        requested'[i] # requested[i]
        => /\ requested'[i] = requested[i] + 1
           /\ Len(results[i]) = requested[i]
           /\ Len(regLog[i]) = Cardinality(Delivered(i))

\* C7: within one invocation the items are realised one at a time in the
\* order the handler yields them: item N+1 is requested only when the port
\* call of item N has ended and its record, if any, is registered; so k
\* plain answers that are all delivered give k send calls and k records,
\* both in the order of the yields.
C7_ItemsInEmissionOrder ==
    [](C7_OneAtATime /\ C7_PlainSends) /\ [][C7_RequestStep]_vars

C7_Witness ==
    \E i \in Invs :
        /\ pc[i] = "done"
        /\ requested[i] = 2
        /\ Delivered(i) = {1, 2}
        /\ \A n \in 1..2 : SentBy(i)[n].answer.type = "Answer"
        /\ regLog[i][1].record.message_id # regLog[i][2].record.message_id

C8_FailedItemStep ==
    \A i \in Invs :
        (/\ Len(results'[i]) = Len(results[i]) + 1
         /\ results'[i][Len(results'[i])].tag = "raise")
        => /\ pc'[i] = "running"
           /\ error'[i] = NoError
           /\ UNCHANGED <<registry, key_registry, handler_registry, regLog>>

C8_NoRecordOfFailedItem ==
    \A i \in Invs :
        /\ \A k \in 1..Len(regLog[i]) : results[i][regLog[i][k].n].tag # "raise"
        /\ error[i].type # "ResponseProcessingError"
        /\ pc[i] = "done" => Len(results[i]) = requested[i]

\* C8: when the port call of one item fails the error is caught in the
\* loop: the registry keeps no record of the item, the invocation does not
\* fail and the generator is asked for its next item, which is processed
\* like any other.
C8_ItemFailureIsIsolated ==
    []C8_NoRecordOfFailedItem /\ [][C8_FailedItemStep]_vars

C8_Witness ==
    \E i \in Invs :
        /\ pc[i] = "done"
        /\ Len(results[i]) = 2
        /\ results[i][1].tag = "raise"
        /\ results[i][2].tag = "message"
        /\ Len(regLog[i]) = 1
        /\ regLog[i][1].n = 2

ResolutionErrors == {"DependencyResolutionError"}

C9_FailedResolution ==
    \A i \in Invs :
        error[i].type \in ResolutionErrors
        => /\ pc[i] = "failed"
           /\ requested[i] = 0
           /\ SentBy(i) = <<>>
           /\ regLog[i] = <<>>

C9_ResolutionStep ==
    \A i \in Invs :
        pc[i] = "resolving"
        => /\ UNCHANGED <<registry, key_registry, handler_registry, sent>>
           /\ pc'[i] \in {"resolving", "running", "failed"}
           /\ pc'[i] = "failed" <=> error'[i] # NoError

\* C9: when a parameter of the handler cannot be resolved (nothing binds
\* it, its marker has no resolver, or its resolver raises) the invocation
\* ends with the error, the handler body does not run, the port is not
\* called and the registry stays as it was.
C9_ResolutionFailureAborts ==
    []C9_FailedResolution /\ [][C9_ResolutionStep]_vars

C9_Witness ==
    /\ pc[2] = "failed"
    /\ error[2].type = "DependencyResolutionError"
    /\ regLog[1] # <<>>
    /\ \E c \in Chats : Fifo(c) # <<>>

\* the record the key index holds for the item's key is of the chat
KeyHit(answer, chat_id) ==
    /\ Truthy(answer.message_key)
    /\ GetByKey(Reg, answer.message_key) # NoRecord
    /\ GetByKey(Reg, answer.message_key).chat_id = chat_id

C10_CallsOfItems ==
    \A i \in Invs :
        /\ Len(SentBy(i)) = requested[i]
        /\ \A n \in 1..Len(SentBy(i)) :
             /\ SentBy(i)[n].n = n
             /\ SentBy(i)[n].method = "edit" <=> IsEdit(SentBy(i)[n].answer)
             /\ SentBy(i)[n].method = "send" <=> ~IsEdit(SentBy(i)[n].answer)
        /\ error[i].type \notin {"ResponseProcessingError", "MessageNotFoundError"}

C10_EditStep(KeyCase(_)) ==
    \A i \in Invs :
        (requested'[i] = requested[i] + 1 /\ IsEdit(item'[i]))
        => LET answer == item'[i]
               call == sent'[Len(sent')]
           IN /\ sent' = Append(sent, call)
              /\ call = PortCall(i, requested'[i], "edit", inv[i].chat_id,
                          FindMessageToEdit(Reg, answer, inv[i].chat_id,
                                            inv[i].handler_name),
                          answer)
              /\ (KeyCase(answer) /\ KeyHit(answer, inv[i].chat_id))
                 => call.message_id = GetByKey(Reg, answer.message_key).message_id
              /\ pc'[i] = "awaiting"
              /\ error'[i] = NoError

\* C10 as stated: every Edit item gives exactly one edit call on the port,
\* with the target find_message_to_edit returns, and no send call; whenever
\* the item's key is the key of a record of the same chat the target is that
\* record's message id; a missing target is not an error.
C10_EditTargetsKeyRecord ==
    []C10_CallsOfItems /\ [][C10_EditStep(LAMBDA a : TRUE)]_vars

\* C10, amended: the same, where the key decides the target only for an
\* item that names no message id itself.
C10_EditTargetsFoundMessage ==
    []C10_CallsOfItems /\ [][C10_EditStep(LAMBDA a : a.message_id = NoneInt)]_vars

C10_Witness ==
    \E i \in Invs :
        /\ pc[i] = "awaiting"
        /\ IsEdit(item[i])
        /\ item[i].message_id = NoneInt
        /\ KeyHit(item[i], inv[i].chat_id)
        /\ sent[Len(sent)].method = "edit"
        /\ sent[Len(sent)].message_id = GetByKey(Reg, item[i].message_key).message_id
        /\ sent[Len(sent)].message_id = 2

\* C11: an Empty answer causes no call on the port and no record; every
\* other answer that is not an Edit causes exactly one send call.
C11_EmptyAnswerMakesNoCall ==
    \A i \in Invs :
        /\ \A n \in 1..Len(SentBy(i)) :
             /\ SentBy(i)[n].answer.type # "EmptyAnswer"
             /\ SentBy(i)[n].answer.type = "Answer" => SentBy(i)[n].method = "send"
        /\ \A k \in 1..Len(regLog[i]) :
             SentBy(i)[regLog[i][k].n].answer.type # "EmptyAnswer"
        /\ (pc[i] = "awaiting" /\ item[i].type = "EmptyAnswer")
           => Len(SentBy(i)) < requested[i]

\* the step in which the port call of invocation i's current item ends
PortReturned(i) == Len(results'[i]) = Len(results[i]) + 1

C12_ReturnStep ==
    \A i \in Invs :
        PortReturned(i)
        => LET out == results'[i][Len(results'[i])]
               c == inv[i].chat_id
           IN IF out.tag = "message"
              THEN LET record == regLog'[i][Len(regLog'[i])].record
                       dq == registry'[out.message.chat_id]
                   IN /\ regLog'[i] = Append(regLog[i],
                                         [n |-> requested[i], record |-> record])
                      /\ record.message_id = out.message.message_id
                      /\ record.chat_id = out.message.chat_id
                      /\ record.handler_name =
                            (IF item[i].handler_name # None
                             THEN item[i].handler_name ELSE inv[i].handler_name)
                      /\ record.metadata =
                            (IF item[i].metadata # None
                             THEN item[i].metadata ELSE EmptyMeta)
                      /\ dq[Len(dq)] = record
                      /\ \A p \in 1..(Len(dq) - 1) : dq[p] \in SeqElems(Fifo(c))
                      /\ \A d \in DOMAIN registry' \ {out.message.chat_id} :
                            d \in DOMAIN registry /\ registry'[d] = registry[d]
                      /\ item[i].message_key # None
                         => /\ item[i].message_key \in DOMAIN key_registry'
                            /\ key_registry'[item[i].message_key] = record
                      /\ record.handler_name \in DOMAIN handler_registry'
                      /\ record \in SeqElems(handler_registry'[record.handler_name])
              ELSE UNCHANGED <<registry, key_registry, handler_registry, regLog>>

\* C12: when the port returns a Message, one record is registered for it,
\* with the Message's id and chat, the item's metadata, the item's handler
\* name if it has one and the running handler's name otherwise, indexed
\* under the item's key if it has one; when the port returns None the
\* registry is unchanged.
C12_ReturnedMessageIsRegistered == [][C12_ReturnStep]_vars

C12_Witness ==
    \E i \in Invs :
        /\ Len(regLog[i]) = 2
        /\ regLog[i][1].record.handler_name = "h2"
        /\ regLog[i][1].record.metadata = "m1"
        /\ inv[i].handler_name = "h1"
        /\ regLog[i][2].record.handler_name = "h1"
        /\ "k1" \in DOMAIN key_registry
        /\ key_registry["k1"] = regLog[i][2].record

\* ---- properties of the scope's session ---------------------------------
Count(log, x) == Cardinality({k \in DOMAIN log : log[k] = x})

C13_ClosedOnce ==
    \A i \in Invs :
        /\ scope[i].session <=> Count(dblog[i], "get_session") >= 1
        /\ Count(dblog[i], "close") <= 1
        /\ pc[i] \in {"done", "failed"}
           => Count(dblog[i], "close") = (IF scope[i].session THEN 1 ELSE 0)
        /\ ~scope[i].session => dblog[i] = <<>>

\* C13: an invocation that opened the session has closed it exactly once
\* when it ends, however it ends, and the session is not closed again later;
\* an invocation that never opened it makes no call on a session.
C13_SessionClosedExactlyOnce == C13_ClosedOnce

C13_Witness ==
    /\ pc[1] = "failed"
    /\ error[1].type = "CommitError"
    /\ pc[2] = "failed"
    /\ error[2].type = "CancelledError"
    /\ \A i \in Invs :
         /\ scope[i].session
         /\ scope[i].deleted
         /\ Count(dblog[i], "close") = 1

\* C14: the session is committed exactly when it was opened and the
\* invocation ended without an exception; the commit comes before the
\* close, and an invocation that ends with an exception closes the session
\* without a commit.
C14_CommitOnlyOnSuccess ==
    \A i \in Invs :
        /\ Count(dblog[i], "commit") >= 1 <=> (pc[i] = "done" /\ scope[i].session)
        /\ (pc[i] = "done" /\ scope[i].session)
           => dblog[i] = <<"get_session", "commit", "close">>
        /\ (pc[i] = "failed" /\ scope[i].session)
           => dblog[i] = (IF error[i].type = "CommitError"
                          THEN <<"get_session", "commit raised", "close">>
                          ELSE <<"get_session", "close">>)

C14_Witness ==
    /\ pc[1] = "done"
    /\ dblog[1] = <<"get_session", "commit", "close">>
    /\ requested[1] = 1
    /\ pc[2] = "failed"
    /\ error[2].type = "HandlerError"
    /\ dblog[2] = <<"get_session", "close">>

\* the parameter the resolution of invocation i is at is a session, and
\* the application has a provider
SessionAccess(i) ==
    /\ pc[i] = "resolving"
    /\ stack[i] # <<>>
    /\ Top(stack[i]).i <= Len(FrameParams(i, Top(stack[i])))
    /\ FrameParams(i, Top(stack[i]))[Top(stack[i]).i].kind = "session"
    /\ world.provider

\* a session parameter is among the parameters invocation i resolves
UsesSession(i) ==
    \/ \E k \in DOMAIN inv[i].params : inv[i].params[k] = SessionParam
    \/ /\ \E k \in DOMAIN inv[i].params : inv[i].params[k].dep.fn = "outer"
       /\ world.sig["outer"] = <<SessionParam>>

C15_AtMostOnce ==
    \A i \in Invs :
        /\ Count(dblog[i], "get_session") <= 1
        /\ ~UsesSession(i) => Count(dblog[i], "get_session") = 0
        /\ (pc[i] = "resolving" /\ Len(stack[i]) = 1 /\ Top(stack[i]).i = 1)
           => dblog[i] = <<>>

C15_AccessStep ==
    \A i \in Invs :
        IF SessionAccess(i) /\ stack'[i] # stack[i] /\ pc'[i] = "resolving"
        THEN /\ dblog'[i] = (IF scope[i].session THEN dblog[i]
                             ELSE Append(dblog[i], "get_session"))
             /\ scope'[i].session
             /\ Top(stack'[i]).args = Append(Top(stack[i]).args, "session")
        ELSE Count(dblog'[i], "get_session") = Count(dblog[i], "get_session")

\* C15: get_session is not called when the scope is created; the first
\* access to the scope's session calls it, no later access does, and an
\* invocation in which nothing asks for the session never calls it.
C15_SessionOpenedLazilyOnce == []C15_AtMostOnce /\ [][C15_AccessStep]_vars

C15_Witness ==
    \E i \in Invs :
        /\ pc[i] = "running"
        /\ world.sig["outer"] = <<SessionParam>>
        /\ Len(inv[i].params) = 4
        /\ inv[i].params[3] = DependsParam("outer", TRUE)
        /\ inv[i].params[4] = SessionParam
        /\ calls[i]["outer"] = 1
        /\ dblog[i] = <<"get_session">>

\* ---- properties of the lookups -----------------------------------------
\* C16: for an Edit answer with a key and no message id, the key decides
\* the target only when the record indexed under the key is of the chat
\* asked for; otherwise the lookup gives what it gives without the key,
\* which is none or the id of a record of that chat.
C16_KeyOfOtherChatIsNotFound ==
    \A k \in Keys, o \in HandlerNames \cup {None}, c \in Chats,
       h \in CurrentHandlers :
        LET record == GetByKey(Reg, k)
            found == FindMessageToEdit(Reg, EditHints(NoneInt, k, o), c, h)
        IN IF record # NoRecord /\ record.chat_id = c
           THEN found = record.message_id
           ELSE /\ found = FindMessageToEdit(Reg, EditHints(NoneInt, None, o), c, h)
                /\ \/ found = NoneInt
                   \/ \E r \in SeqElems(Fifo(c)) : r.message_id = found

C16_Witness ==
    /\ "k1" \in DOMAIN key_registry
    /\ key_registry["k1"].chat_id = 1
    /\ key_registry["k1"].message_id = 1
    /\ Len(Fifo(2)) = 1
    /\ Fifo(2)[1].message_id = 2
    /\ FindMessageToEdit(Reg, EditHints(NoneInt, "k1", None), 2, "h3") = 2

\* C17: in steps 3, 4 and 5 the record chosen is the candidate registered
\* last: get_by_handler puts the handler's most recently registered record
\* of the chat first, whatever the timestamps, and the chat-wide fallback
\* is the record registered last in the chat.
C17_MostRecentIsLastRegistered ==
    \A c \in Chats, h \in HandlerNames :
        /\ LatestOfHandler(h, c) # NoRecord
           => /\ GetByHandler(Reg, h, c, NoneInt)[1].message_id
                    = LatestOfHandler(h, c).message_id
              /\ FindMessageToEdit(Reg, EditHints(NoneInt, None, h), c, "h3")
                    = LatestOfHandler(h, c).message_id
              /\ FindMessageToEdit(Reg, EditHints(NoneInt, None, None), c, h)
                    = LatestOfHandler(h, c).message_id
        /\ Fifo(c) # <<>>
           => /\ \A r \in SeqElems(Fifo(c)) : r.seq <= GetLastMessage(Reg, c).seq
              /\ FindMessageToEdit(Reg, EditHints(NoneInt, None, None), c, "h3")
                    = GetLastMessage(Reg, c).message_id

\* the step is a register_message call; Registered is its record
RegisterStep == count' # count
RegisteredChat == CHOOSE c \in Chats : count'[c] # count[c]
Registered == registry'[RegisteredChat][Len(registry'[RegisteredChat])]

C18_ReplaceStep(Kept(_)) ==
    (RegisterStep /\ last_call'.previous # NoRecord)
    => LET key == last_call'.key
           previous == last_call'.previous
       IN /\ key \in DOMAIN key_registry'
          /\ key_registry'[key] = Registered
          /\ GetByKey(RegistryState(registry', key_registry', handler_registry'),
                      key) = Registered
          /\ Registered.seq = count'[RegisteredChat]
          /\ Kept(previous)
             => /\ previous \in SeqElems(registry'[previous.chat_id])
                /\ previous \in HandlerIndexed => previous \in HandlerIndexed'

\* C18 as stated: a register call with a key that is already indexed makes
\* the key map to the new record, and the record the key mapped to before
\* stays in its chat's FIFO and in the handler index.
C18_KeyLastWriteWins == [][C18_ReplaceStep(LAMBDA r : TRUE)]_vars

\* C18, amended: the same, where the record the key mapped to before stays
\* unless it is the record this call evicts.
C18_KeyLastWriteWinsUnlessEvicted ==
    [][C18_ReplaceStep(LAMBDA r : r # old_record')]_vars

C18_Witness ==
    /\ last_call.key = "k1"
    /\ last_call.previous # NoRecord
    /\ last_call.previous # old_record
    /\ key_registry["k1"] # last_call.previous
    /\ key_registry["k1"].message_id # last_call.previous.message_id
    /\ InOwnFifo(last_call.previous)
    /\ last_call.previous \in HandlerIndexed

\* C19: a register call that evicts the oldest record R of a chat removes
\* no index entry but R's own: a key that mapped to another record (and is
\* not the key given to this call) maps to the same record afterwards, and
\* every other record in the handler index is still in it.
C19_EvictionKeepsOtherEntries ==
    [][(RegisterStep /\ old_record' # NoRecord)
       => /\ \A k \in DOMAIN key_registry :
               (k # last_call'.key /\ key_registry[k] # old_record')
               => /\ k \in DOMAIN key_registry'
                  /\ key_registry'[k] = key_registry[k]
          /\ \A r \in HandlerIndexed :
               r # old_record' => r \in HandlerIndexed']_vars

\* a call of a resolver function that raised: it is counted and nothing
\* is logged as returned
C20_RaiseStep(i) == calls'[i] # calls[i] /\ rlog'[i] = rlog[i]

\* the error that leaves resolve_handler when the resolver function on top
\* of the stack raises
C20_Wrapped(i) ==
    /\ pc'[i] = "failed"
    /\ error'[i].type = "DependencyResolutionError"
    /\ error'[i].cause = "Exception"
    /\ error'[i].handler_name = inv[i].handler_name
    /\ \E k \in 1..Len(inv[i].params) :
         /\ inv[i].params[k].kind = "depends"
         /\ error'[i].parameter_name = ParamNames[k]
         /\ Len(rlog[i]) >= k - 1
    /\ LET c == error'[i].dependency_chain
       IN /\ Len(c) >= 2
          /\ c[1] = error'[i].handler_name
          /\ c[2] = error'[i].parameter_name
          /\ Len(stack[i]) > 2 =>
               (Len(c) >= Len(stack[i]) /\ c[Len(c)] = Top(stack[i]).fn)

\* the handler is called with the values the resolver functions returned
C20_HandlerGetsResolvedValues ==
    \A i \in Invs :
        pc[i] = "running"
        => /\ error[i] = NoError
           /\ Len(stack[i][1].args) = Len(inv[i].params)
           /\ \A k \in 1..Len(inv[i].params) :
                inv[i].params[k].kind = "depends"
                => \E n \in 1..Len(rlog[i]) :
                     /\ rlog[i][n].fn = inv[i].params[k].dep.fn
                     /\ rlog[i][n].value = stack[i][1].args[k]

C21_AtNullMarker(i) ==
    /\ pc[i] = "resolving"
    /\ stack[i] # <<>>
    /\ LET top == Top(stack[i])
           params == FrameParams(i, top)
       IN /\ top.i <= Len(params)
          /\ params[top.i].kind = "depends"
          /\ params[top.i].dep.fn = None

\* invocation i has failed on a marker without a resolver function
C21_FailedOnNullMarker(i) ==
    /\ pc[i] = "failed"
    /\ error[i].type = "DependencyResolutionError"
    /\ error[i].cause = None
    /\ error[i].dependency_chain = <<>>
    /\ error[i].message = <<NoFunctionText>>

\* C21: resolving a marker whose resolver function is None fails at once
\* with a DependencyResolutionError: no resolver function is called, the
\* cache of the scope stays as it is, and a later attempt fails the same.
C21_NullMarkerFailsAtOnce ==
    [][\A i \in Invs :
         (C21_AtNullMarker(i) /\ <<pc[i], stack[i]>>' # <<pc[i], stack[i]>>)
         => /\ pc'[i] = "failed"
            /\ error'[i] = Saying(Error("DependencyResolutionError", <<>>, None),
                                   <<NoFunctionText>>)
            /\ calls' = calls
            /\ cache' = cache
            /\ rlog' = rlog]_vars

\* both attempts reached the marker after a cached resolve and failed
C21_Witness ==
    /\ C21_FailedOnNullMarker(1)
    /\ C21_FailedOnNullMarker(2)
    /\ \A i \in Invs :
         /\ Len(inv[i].params) = 2
         /\ inv[i].params[2].dep.fn = None
         /\ "inner" \in DOMAIN cache[i]
         /\ calls[i]["inner"] = 1

\* the handler itself declares a session or a repository
C22_NeedsDatabase(i) ==
    \E k \in 1..Len(inv[i].params) :
        inv[i].params[k].kind \in {"session", "repository"}

\* resolve_handler is about to bind such a parameter and the application
\* has no database provider
C22_AtUnconfigured(i) ==
    /\ ~world.provider
    /\ pc[i] = "resolving"
    /\ Len(stack[i]) = 1
    /\ stack[i][1].i <= Len(inv[i].params)
    /\ inv[i].params[stack[i][1].i].kind \in {"session", "repository"}

C22_Reported(i) ==
    /\ pc'[i] = "failed"
    /\ error'[i].type = "DependencyResolutionError"
    /\ error'[i].cause = "DatabaseNotConfiguredError"
    /\ error'[i].message =
          <<NotConfiguredText, inv[i].handler_name, ParamNames[stack[i][1].i]>>
    /\ error'[i].handler_name = inv[i].handler_name
    /\ error'[i].parameter_name = ParamNames[stack[i][1].i]

ServicePositions ==
    {n \in 1..Len(injections) : injections[n].type = "service"}
ResetsBefore(n) ==
    Cardinality({m \in 1..(n - 1) : injections[m] = ResetMark})

\* C23: between two reset() calls singleton(type) hands out one instance,
\* whichever invocation asks and however the invocations interleave: the
\* constructor runs for the first request only; after reset() the next
\* request constructs an instance that is none of the earlier ones.
C23_SingletonPerReset ==
    \A b \in ServicePositions :
        /\ injections[b].constructed
             <=> ~\E a \in ServicePositions :
                     a < b /\ ResetsBefore(a) = ResetsBefore(b)
        /\ \A a \in ServicePositions :
             a < b => (injections[a].id = injections[b].id
                         <=> ResetsBefore(a) = ResetsBefore(b))

\* two invocations got the instance while both were resolving, and after
\* a reset the first got another
C23_Witness ==
    /\ Len(injections) = 4
    /\ injections[1].type = "service" /\ injections[1].inv = 1
    /\ injections[2].type = "service" /\ injections[2].inv = 2
    /\ injections[3] = ResetMark
    /\ injections[4].type = "service" /\ injections[4].inv = 1
    /\ injections[4].id # injections[1].id
    /\ pc[2] = "resolving"

RepositoryPositions ==
    {n \in 1..Len(injections) : injections[n].type = "repository"}

\* C24: every injection of a repository type constructs an instance, bound
\* to the session of the scope that is being resolved: no two injections
\* hand out the same object, injections of one scope have that scope's one
\* session, injections of different scopes have different sessions.
C24_RepositoryIsNewPerInjection ==
    \A b \in RepositoryPositions :
        /\ injections[b].constructed
        /\ injections[b].session = injections[b].inv
        /\ scope[injections[b].inv].session
        /\ Count(dblog[injections[b].inv], "get_session") = 1
        /\ \A a \in RepositoryPositions :
             a # b => /\ injections[a].id # injections[b].id
                      /\ injections[a].session = injections[b].session
                           <=> injections[a].inv = injections[b].inv

\* a handler got two repositories while another invocation, still
\* resolving, got one in between
C24_Witness ==
    /\ Len(injections) = 3
    /\ \A n \in 1..3 : injections[n].type = "repository"
    /\ injections[1].inv = 1
    /\ injections[2].inv = 2
    /\ injections[3].inv = 1
    /\ pc[2] = "resolving"

\* the arguments bound for the parameters: one per parameter, and for a
\* marked parameter a value its resolve returned
C25_AllBound(i, frame, params) ==
    /\ frame.i = Len(params) + 1
    /\ ~frame.unbound
    /\ Len(frame.args) = Len(params)
    /\ \A k \in 1..Len(params) :
         params[k].kind = "depends"
         => \E n \in 1..Len(rlog[i]) :
              /\ rlog[i][n].fn = params[k].dep.fn
              /\ rlog[i][n].value = frame.args[k]

C25_Step(i) ==
    \* a resolver function is called: the one on top, with all arguments
    /\ calls'[i] # calls[i]
       => /\ pc[i] = "resolving"
          /\ Top(stack[i]).kind = "call"
          /\ calls'[i] = [calls[i] EXCEPT ![Top(stack[i]).fn] = @ + 1]
          /\ C25_AllBound(i, Top(stack[i]), world.sig[Top(stack[i]).fn])
    \* the handler is called
    /\ (pc[i] = "resolving" /\ pc'[i] = "running")
       => C25_AllBound(i, stack[i][1], inv[i].params)
    \* a failed resolve: the functions waiting for it are not called
    /\ (pc[i] = "resolving" /\ pc'[i] = "failed")
       => \A n \in 1..(Len(stack[i]) - 1) :
            stack[i][n].kind = "call"
            => calls'[i][stack[i][n].fn] = calls[i][stack[i][n].fn]
    /\ pc[i] = "failed" => (pc'[i] = "failed" /\ calls'[i] = calls[i])

\* C25: a resolver function is called only when each of its parameters
\* has been bound, marked ones to the value their resolve returned, and so
\* is the handler; when a resolve fails, the functions and the handler
\* that wait for its value are never called.
C25_DepthFirst == [][\A i \in Invs : C25_Step(i)]_vars

\* the handler runs with the value of outer, which was called with the
\* value of inner
C25_Witness ==
    /\ pc[1] = "running"
    /\ inv[1].params = <<DependsParam("outer", FALSE)>>
    /\ world.sig["outer"] = <<DependsParam("inner", FALSE)>>
    /\ calls[1] = [f \in Fns |-> 1]
    /\ Len(rlog[1]) = 2
    /\ rlog[1][1].fn = "inner" /\ rlog[1][1].value = "v1"
    /\ rlog[1][2].fn = "outer" /\ rlog[1][2].value = "v2"
    /\ stack[1][1].args = <<"v2">>

\* C26: the two leading parameters of a handler, the event and the
\* context, never make the resolution fail, whatever their annotation:
\* no resolution error names the first or the second parameter.
C26_LeadingParametersNeverFail ==
    \A i \in Invs :
        (pc[i] = "failed" /\ error[i].type = "DependencyResolutionError")
        => error[i].parameter_name \notin {ParamNames[1], ParamNames[2]}

\* the update of invocation i has no chat id
C27_NoChat(i) == pc[i] # "idle" /\ inv[i].chat_id = NoneInt

C27_Aborted ==
    \A i \in Invs :
        C27_NoChat(i)
        => /\ pc[i] \in {"resolving", "failed"}
           /\ requested[i] = 0
           /\ results[i] = <<>>
           /\ SentBy(i) = <<>>
           /\ regLog[i] = <<>>
           /\ pc[i] = "failed"
              => /\ error[i] # NoError
                 /\ Count(dblog[i], "commit") = 0
                 /\ Count(dblog[i], "commit raised") = 0
                 /\ scope[i].session
                    => (scope[i].closed /\ Count(dblog[i], "close") = 1)

\* resolve_handler has returned and the chat id is asked for
C27_ChatIdStep(i) ==
    (/\ C27_NoChat(i)
     /\ pc[i] = "resolving"
     /\ Len(stack[i]) = 1
     /\ stack[i][1].i > Len(inv[i].params)
     /\ pc'[i] # pc[i])
    => /\ pc'[i] = "failed"
       /\ error'[i].type \in {"ChatIdNotFoundError", "CancelledError"}
       /\ UNCHANGED <<registry, key_registry, handler_registry, sent>>

\* C27: when the update has no chat id the invocation ends with
\* ChatIdNotFoundError once its parameters are resolved: the handler is
\* not asked for an item, the port is not called, nothing is registered,
\* and the session, if one was opened, is closed without a commit.
C27_MissingChatIdAborts ==
    []C27_Aborted /\ [][\A i \in Invs : C27_ChatIdStep(i)]_vars

\* the second update had no chat id; its handler's session was opened
\* during resolution and closed
C27_Witness ==
    /\ pc[1] = "done"
    /\ pc[2] = "failed"
    /\ inv[2].chat_id = NoneInt
    /\ error[2].type = "ChatIdNotFoundError"
    /\ dblog[2] = <<"get_session", "close">>
    /\ requested[1] = 1

\* the dependency graph of the resolver functions
DepsOf(f) ==
    {world.sig[f][k].dep.fn :
        k \in {j \in 1..Len(world.sig[f]) : world.sig[f][j].kind = "depends"}}
RECURSIVE ReachIn(_, _)
ReachIn(fs, n) ==
    IF n = 0 THEN {}
    ELSE LET next == UNION {DepsOf(f) : f \in fs}
         IN next \cup ReachIn(next, n - 1)
ReachableFrom(f) == ReachIn({f}, Cardinality(Fns))
OnCycle(f) == f \in ReachableFrom(f)
ReachesCycle(f) == \E g \in {f} \cup ReachableFrom(f) : OnCycle(g)

\* a marker of the handler of invocation i leads into a cycle
C28_Cyclic(i) ==
    \E k \in 1..Len(inv[i].params) :
        /\ inv[i].params[k].kind = "depends"
        /\ ReachesCycle(inv[i].params[k].dep.fn)

C28_NeverReturns ==
    \A i \in Invs :
        IF C28_Cyclic(i)
        THEN /\ pc[i] \in {"resolving", "failed"}
             /\ \A f \in Fns :
                  ReachesCycle(f)
                  => /\ calls[i][f] = 0
                     /\ f \notin DOMAIN cache[i]
                     /\ \A n \in 1..Len(rlog[i]) : rlog[i][n].fn # f
             /\ pc[i] = "failed"
                => /\ error[i].cause = "RecursionError"
                   /\ Len(error[i].dependency_chain) > MaxDepth
        ELSE /\ Len(stack[i]) <= 1 + Cardinality(Fns)
             /\ error[i].cause # "RecursionError"

\* a step of a resolve that is on its way into a cycle adds a frame until
\* no frame is left
C28_Deeper(i) ==
    (C28_Cyclic(i) /\ pc[i] = "resolving" /\ stack'[i] # stack[i])
    => IF Len(stack[i]) < MaxDepth
       THEN /\ Len(stack'[i]) = Len(stack[i]) + 1
            /\ pc'[i] = "resolving"
       ELSE pc'[i] = "failed"

\* C28: a resolve that leads into a cycle of the dependency graph calls no
\* function of the cycle, returns no value, caches nothing and raises no
\* error of its own, whatever the use_cache of the markers: every step
\* goes one call deeper until the interpreter has no frame left
\* (RecursionError); a resolve in a graph without cycle stays within the
\* depth of the graph and ends.
C28_CycleRecursesWithoutBound ==
    /\ []C28_NeverReturns
    /\ [][\A i \in Invs : C28_Deeper(i)]_vars
    /\ \A i \in Invs :
         /\ (pc[i] = "resolving" /\ ~C28_Cyclic(i))
              ~> (pc[i] \in {"running", "failed"})
         /\ (pc[i] = "resolving" /\ C28_Cyclic(i))
              ~> (pc[i] = "failed" /\ error[i].cause = "RecursionError")

\* inner and outer, both cached markers, took turns until no frame was left
C28_Witness ==
    /\ pc[1] = "failed"
    /\ error[1].cause = "RecursionError"
    /\ inv[1].params = <<DependsParam("inner", TRUE)>>
    /\ world.sig["inner"] = <<DependsParam("outer", TRUE)>>
    /\ world.sig["outer"] = <<DependsParam("inner", TRUE)>>
    /\ SubSeq(error[1].dependency_chain, 1, 5) =
          <<"h1", "p1", "outer", "inner", "outer">>
    /\ cache[1] = EmptyDict
    /\ calls[1] = [f \in Fns |-> 0]

\* the records the deques hold
Stored == UNION {SeqElems(Fifo(c)) : c \in Chats}

C29_Consistent ==
    /\ \A c \in Chats : Len(Fifo(c)) <= MaxPerChat
    /\ \A r \in KeyIndexed \cup HandlerIndexed : r \in Stored /\ InOwnFifo(r)
    \* what the invocations registered is stored, but for the oldest
    \* records of a chat that has seen more than it holds
    /\ \A i \in Invs : \A n \in 1..Len(regLog[i]) :
         LET r == regLog[i][n].record
         IN r \in Stored <=> r.seq > count[r.chat_id] - MaxPerChat

\* a step removes a stored record only by evicting it, and a register
\* step stores its record
C29_Step ==
    /\ \A r \in Stored : r \in Stored' \/ (RegisterStep /\ r = old_record')
    /\ \A i \in Invs :
         regLog'[i] # regLog[i]
         => /\ RegisterStep
            /\ regLog'[i][Len(regLog'[i])].record \in Stored'
            /\ regLog'[i][Len(regLog'[i])].record \notin Stored

\* C29: however the invocations that share the registry interleave at
\* their transport calls, no chat holds more than max_per_chat records,
\* every record an index holds is in the deque of its chat, and a record
\* that was registered stays in its deque until it is evicted as the
\* oldest of its chat.
C29_RegistrySafeUnderInterleaving ==
    []C29_Consistent /\ [][C29_Step]_vars

\* the first invocation called the port first, the second registered
\* first, and the third registration evicted a record while both were
\* still running
C29_Witness ==
    /\ sent # <<>>
    /\ sent[1].inv = 1
    /\ regLog[2] # <<>>
    /\ regLog[2][1].record.seq = 1
    /\ regLog[1] # <<>>
    /\ count[1] = MaxPerChat + 1
    /\ old_record # NoRecord
    /\ old_record = regLog[2][1].record
    /\ \A i \in Invs : pc[i] \in {"running", "awaiting"}

\* invocation i has resolved all parameters of its handler
C30_Resolved(i) == pc[i] \in {"running", "done"}

\* the resolver functions the handler of invocation i names in a cached
\* marker
C30_CachedMarkers(i) ==
    {inv[i].params[k].dep.fn :
        k \in {j \in 1..Len(inv[i].params) :
                 /\ inv[i].params[j].kind = "depends"
                 /\ inv[i].params[j].dep.use_cache}}

\* C30: a scope answers a resolve from its cache only with a value that a
\* call made in this scope returned, so each invocation that resolves a
\* use_cache=true marker calls the resolver function once itself,
\* whatever other invocations have cached and however they interleave; a
\* scope's cache holds only functions called in it; and each scope that
\* has a session made its own single get_session call.
C30_ScopeOwnsCacheAndSession ==
    \A i \in Invs :
        /\ \A n \in 1..Len(rlog[i]) :
             ~rlog[i][n].invoked
             => \E m \in 1..(n - 1) :
                  /\ rlog[i][m].invoked
                  /\ rlog[i][m].fn = rlog[i][n].fn
                  /\ rlog[i][m].value = rlog[i][n].value
        /\ \A f \in DOMAIN cache[i] : calls[i][f] >= 1
        /\ \A f \in C30_CachedMarkers(i) :
             /\ calls[i][f] <= 1
             /\ C30_Resolved(i) => calls[i][f] = 1
        /\ scope[i].session <=> Count(dblog[i], "get_session") = 1
        /\ Count(dblog[i], "get_session") <= 1

\* both invocations resolved the marker of outer twice while the other was
\* at work: each called outer once and opened its own session for the
\* repository outer takes
C30_Witness ==
    /\ world.provider
    /\ world.sig["outer"] = <<RepositoryParam>>
    /\ \A i \in Invs :
         /\ pc[i] = "running"
         /\ Len(rlog[i]) = 2
         /\ rlog[i][1].invoked /\ ~rlog[i][2].invoked
         /\ calls[i]["outer"] = 1
         /\ dblog[i] = <<"get_session">>
    /\ Len(injections) = 2
    /\ injections[1].inv = 2
    /\ injections[2].inv = 1

\* ---- C31 ------------------------------------------------------------------
\* the bot calls made by the edit() call in progress or just ended
BotCallsOfEdit == SubSeq(adapter.bot, adapter.first, Len(adapter.bot))

\* C31: PTBBotAdapter.edit degrades to send instead of failing. Called for an
\* EditAnswer with message id None it makes one send_message call and returns
\* the Message of what was sent; when edit_message_text raises it makes a
\* send_message call and returns that Message; an edit() for an EditAnswer
\* ends in an exception only when a send_message call raised, never with the
\* exception of edit_message_text.
C31_EditDegradesToSend ==
    IsEdit(adapter.answer) =>
        /\ adapter.pc = "raised" => adapter.cause = "send_message"
        /\ (adapter.pc = "returned" /\ adapter.message_id = NoneInt) =>
               /\ BotCallsOfEdit =
                      <<BotCall("send_message", adapter.chat_id, NoneInt)>>
               /\ adapter.out.tag = "message"
               /\ adapter.out.message.chat_id = adapter.chat_id
        /\ (adapter.pc = "returned" /\ adapter.fallback) =>
               /\ BotCallsOfEdit =
                      <<BotCall("edit_message_text", adapter.chat_id,
                                adapter.message_id),
                        BotCall("send_message", adapter.chat_id, NoneInt)>>
               /\ adapter.out.tag = "message"
               /\ adapter.out.message.chat_id = adapter.chat_id
        /\ (adapter.pc # "idle" /\ adapter.message_id # NoneInt
                /\ ~adapter.fallback) =>
               /\ adapter.pc \in {"edit_message_text", "returned"}
               /\ BotCallsOfEdit =
                      <<BotCall("edit_message_text", adapter.chat_id,
                                adapter.message_id)>>

\* the second edit() of a behaviour returned the Message of the send_message
\* made after its edit_message_text raised
C31_FellBackToSend ==
    /\ adapter.n = 2
    /\ adapter.pc = "returned"
    /\ adapter.fallback
    /\ adapter.out.tag = "message"

\* ---- C32 ------------------------------------------------------------------
\* the records reachable from the deques or from an index
Known == Stored \cup KeyIndexed \cup HandlerIndexed

\* C32: records are immutable and leave the registry only by eviction. In
\* every step each chat's deque is unchanged, or has gained one record at its
\* end in a register call for that chat, losing its oldest record exactly
\* when the chat was at capacity; a register call for one chat leaves every
\* other chat's deque as it was, and a record known before and after a step
\* has the same fields.
C32_RecordsLeaveOnlyByEviction ==
    [][/\ \A c \in Chats :
            LET f == Fifo(c)
                g == Fifo(c)'
            IN IF count'[c] = count[c]
               THEN g = f
               ELSE /\ count'[c] = count[c] + 1
                    /\ g # <<>>
                    /\ g[Len(g)].seq = count'[c]
                    /\ IF Len(f) >= MaxPerChat
                       THEN /\ g = Tail(f) \o <<g[Len(g)]>>
                            /\ old_record' = f[1]
                       ELSE g = f \o <<g[Len(g)]>>
                    /\ \A d \in Chats \ {c} : Fifo(d)' = Fifo(d)
       /\ \A r \in Known : \A q \in Known' :
              (r.chat_id = q.chat_id /\ r.seq = q.seq) => r = q
      ]_regVars

\* a register call for chat 1, at capacity, has evicted that chat's oldest
\* record, the first one registered
C32_Witness ==
    /\ old_record # NoRecord
    /\ old_record.chat_id = 1
    /\ old_record.seq = 1
    /\ count[1] = MaxPerChat + 1
    /\ Len(Fifo(1)) = MaxPerChat
    /\ Fifo(1)[1].seq = 2

\* ---- C33 ------------------------------------------------------------------
\* the path to the frame on top of invocation i's stack: the handler, its
\* parameter being resolved, then the resolver functions entered below the
\* parameter's own resolver
FailingPath(i) ==
    <<inv[i].handler_name, HandlerParamName(stack[i])>>
    \o [k \in 1..(Len(stack[i]) - 2) |-> stack[i][k + 2].fn]

\* C33: when resolution fails inside a resolver, the chain of the resolution
\* error is exactly the path that led to the failure: the handler name, the
\* parameter name, then the nested resolvers down to the failing one, and no
\* resolver that is off that path, such as one that had already returned.
C33_ChainIsFailingPath ==
    [][\A i \in Invs :
         (/\ pc[i] = "resolving"
          /\ pc'[i] = "failed"
          /\ Len(stack[i]) >= 2
          /\ error'[i].type = "DependencyResolutionError")
         => error'[i].dependency_chain = FailingPath(i)]_vars

\* ---- C34 ------------------------------------------------------------------
\* C34: register_message appends after evicting: within one call on a chat
\* at capacity, no state of the call has the new record in the chat's deque
\* while the key index or the handler index still references the evicted
\* record.
C34_AppendsAfterEvicting ==
    (/\ registering.at # "idle"
     /\ old_record # NoRecord
     /\ registering.record \in SeqElems(Fifo(registering.record.chat_id)))
    => old_record \notin KeyIndexed \cup HandlerIndexed

\* ---- C35 ------------------------------------------------------------------
\* C35: for an Edit answer without a direct message id, find_message_to_edit
\* returns None exactly when the chat's deque is empty, and an id it returns
\* is the message id of a record now in that chat's deque, for every chat and
\* every combination of key hint, origin-handler hint and current handler.
C35_FindsOnlyStoredOfChat ==
    \A k \in Keys \cup {None}, o \in HandlerNames \cup {None}, c \in Chats,
       h \in CurrentHandlers :
        LET found == FindMessageToEdit(Reg, EditHints(NoneInt, k, o), c, h)
        IN /\ found = NoneInt <=> Fifo(c) = <<>>
           /\ found # NoneInt =>
                  \E r \in SeqElems(Fifo(c)) : r.message_id = found

\* chat 1 has evicted a record with message id 1 registered by h1 under key
\* k1 and holds records with id 2 only; chat 2 is empty: the lookups with
\* the key and the handler of the evicted record give 2 in chat 1 and None
\* in chat 2
C35_Witness ==
    /\ old_record # NoRecord
    /\ old_record.chat_id = 1
    /\ old_record.message_id = 1
    /\ old_record.handler_name = "h1"
    /\ last_call.key = None
    /\ \A r \in SeqElems(Fifo(1)) : r.message_id = 2
    /\ Fifo(2) = <<>>
    /\ FindMessageToEdit(Reg, EditHints(NoneInt, "k1", "h1"), 1, "h1") = 2
    /\ FindMessageToEdit(Reg, EditHints(NoneInt, "k1", "h1"), 2, "h1") = NoneInt

\* ---- C36 ------------------------------------------------------------------
\* the resolver functions of cached markers whose calls are in progress in
\* invocation i
CachedInProgress(i) ==
    {stack[i][n].fn : n \in {m \in 1..Len(stack[i]) :
                                 /\ stack[i][m].kind = "call"
                                 /\ stack[i][m].use_cache}}

\* the resolve_handler call of invocation i fails inside a resolver call
C36_FailsInCall(i) ==
    /\ pc[i] = "resolving"
    /\ pc'[i] = "failed"
    /\ Len(stack[i]) >= 2

\* every value the scope of invocation i answers with was returned by a
\* call of the function made for a cached marker in that scope
C36_CacheHoldsReturnedValues ==
    \A i \in Invs : \A f \in DOMAIN cache[i] :
        \E n \in 1..Len(rlog[i]) :
            /\ rlog[i][n].fn = f
            /\ rlog[i][n].use_cache
            /\ rlog[i][n].invoked
            /\ rlog[i][n].value = cache[i][f]

\* C36: a failed resolution leaves no cache entry. When the resolver function
\* of a use_cache=true marker raises, or a dependency nested in it fails, the
\* scope's cache is as it was and answers with no value for that function,
\* so the next resolve of the marker in the same scope calls the function
\* again; a resolve is answered without a call only with a value that a call
\* returned.
C36_FailureLeavesNoCacheEntry ==
    /\ []C36_CacheHoldsReturnedValues
    /\ [][\A i \in Invs :
            /\ C36_FailsInCall(i) =>
                 /\ cache'[i] = cache[i]
                 /\ \A f \in CachedInProgress(i) :
                        ~CacheHit(cache'[i], Depends(f, TRUE))
            /\ Len(rlog'[i]) > Len(rlog[i]) =>
                 LET last == rlog'[i][Len(rlog'[i])]
                 IN ~last.invoked =>
                        /\ CacheHit(cache[i], Depends(last.fn, TRUE))
                        /\ last.value = cache[i][last.fn]]_vars

\* inner, wrapped in a cached marker, raised in the first resolve_handler
\* call; the second call on the same scope called it again and bound the
\* value it returned, which is now cached
C36_Witness ==
    /\ pc[1] = "running"
    /\ inv[1].params = <<DependsParam("inner", TRUE)>>
    /\ calls[1]["inner"] = 2
    /\ Len(rlog[1]) = 1
    /\ rlog[1][1].invoked
    /\ cache[1] = CacheDependency(EmptyDict, "inner", rlog[1][1].value)
    /\ stack[1][1].args = <<rlog[1][1].value>>

\* ---- C37 ------------------------------------------------------------------
\* the marker of the parameter invocation i is about to resolve, NoDepends
\* if the parameter has none
NextMarker(i) ==
    IF pc[i] = "resolving" /\ stack[i] # <<>>
    THEN LET top == Top(stack[i])
             params == FrameParams(i, top)
         IN IF top.i <= Len(params) /\ params[top.i].kind = "depends"
            THEN params[top.i].dep ELSE NoDepends
    ELSE NoDepends

\* C37: a marker with use_cache=false neither reads nor writes the scope's
\* cache. Resolving it calls the function: the resolve enters the call also
\* when a use_cache=true marker of the same function has cached a value, the
\* resolve returns after a call, and neither step changes the cache, so the
\* cached value is there for later use_cache=true resolves.
C37_UncachedMarkerBypassesCache ==
    [][\A i \in Invs :
         /\ (/\ NextMarker(i) # NoDepends
             /\ NextMarker(i).fn # None
             /\ ~NextMarker(i).use_cache
             /\ stack'[i] # stack[i])
            => /\ Len(stack'[i]) = Len(stack[i]) + 1
               /\ Top(stack'[i]).kind = "call"
               /\ Top(stack'[i]).fn = NextMarker(i).fn
               /\ rlog'[i] = rlog[i]
               /\ cache'[i] = cache[i]
         /\ Len(rlog'[i]) > Len(rlog[i]) =>
              LET last == rlog'[i][Len(rlog'[i])]
              IN ~last.use_cache =>
                     /\ last.invoked
                     /\ calls'[i][last.fn] = calls[i][last.fn] + 1
                     /\ cache'[i] = cache[i]]_vars

\* a handler with a cached, an uncached and again a cached marker of inner:
\* inner was called for the first two, the third got the value the first
\* call returned, which is still the cached one
C37_Witness ==
    /\ pc[1] = "running"
    /\ inv[1].params = <<DependsParam("inner", TRUE),
                         DependsParam("inner", FALSE),
                         DependsParam("inner", TRUE)>>
    /\ calls[1]["inner"] = 2
    /\ Len(rlog[1]) = 3
    /\ rlog[1][1].invoked /\ rlog[1][1].value = "v1"
    /\ rlog[1][2].invoked /\ rlog[1][2].value = "v2"
    /\ ~rlog[1][3].invoked /\ rlog[1][3].value = "v1"
    /\ cache[1]["inner"] = "v1"
    /\ stack[1][1].args = <<"v1", "v2", "v1">>

\* ---- C38 ------------------------------------------------------------------
\* the handler body of invocation i raises in this step
C38_BodyRaises(i) ==
    /\ pc[i] = "running"
    /\ pc'[i] = "failed"
    /\ error'[i].type = "HandlerError"

\* the exception of the handler body has left invocation i
C38_Raised(i) == pc[i] = "failed" /\ error[i].type = "HandlerError"

\* C38: when the handler body raises after having yielded k items, each of
\* the k items has had its send or edit call and its answer, those that
\* were sent are registered, calls and records in emission order; the
\* exception leaves the invocation, which processes no further item; the
\* scope's session is closed and not committed.
C38_BodyExceptionPropagates ==
    [][\A i \in Invs :
         /\ C38_BodyRaises(i) =>
              LET k == requested[i]
              IN /\ Len(results[i]) = k
                 /\ Len(SentBy(i)) = k
                 /\ \A n \in 1..k : SentBy(i)[n].n = n
                 /\ {regLog[i][j].n : j \in 1..Len(regLog[i])} = Delivered(i)
                 /\ \A j \in 1..(Len(regLog[i]) - 1) :
                        /\ regLog[i][j].n < regLog[i][j + 1].n
                        /\ regLog[i][j].record.seq < regLog[i][j + 1].record.seq
                 /\ UNCHANGED <<requested, results, sent, regLog, regVars>>
                 /\ dblog'[i] = dblog[i] \o CloseCalls(scope[i])
                 /\ scope[i].session => scope'[i].closed
         /\ C38_Raised(i) =>
              /\ C38_Raised(i)'
              /\ error'[i] = error[i]
              /\ requested'[i] = requested[i]
              /\ results'[i] = results[i]
              /\ regLog'[i] = regLog[i]
              /\ SentBy(i)' = SentBy(i)
              /\ "commit" \notin SeqElems(dblog'[i])
              /\ scope[i].session => scope'[i].closed]_vars

\* the handler body raised after two items that were both sent and
\* registered; the session the handler had opened is closed, not committed
C38_Witness ==
    /\ C38_Raised(1)
    /\ requested[1] = 2
    /\ Len(regLog[1]) = 2
    /\ Len(Fifo(1)) = 2
    /\ dblog[1] = <<"get_session", "close">>
    /\ scope[1].closed

\* ---- C39 ------------------------------------------------------------------
\* invocation i takes an Edit item without id, key or origin handler from
\* its generator in this step, its previous item being a Send that the
\* transport answered with a Message
C39_EditFollowsOwnSend(i) ==
    /\ requested[i] >= 1
    /\ requested'[i] = requested[i] + 1
    /\ item'[i] = AnswerOf("EditAnswer", NoneInt, None, None, None)
    /\ ~IsEdit(SentBy(i)[requested[i]].answer)
    /\ results[i][requested[i]].tag = "message"

\* C39: when an invocation yields a Send and then an Edit without direct id,
\* key or origin handler, the edit call is made for the message its own Send
\* produced, however other invocations of the same or of another handler
\* interleave their sends into the chat.
C39_EditTargetsOwnSend ==
    [][\A i \in Invs :
         C39_EditFollowsOwnSend(i) =>
             sent'[Len(sent')].message_id =
                 results[i][requested[i]].message.message_id]_vars

\* ---- C40 ------------------------------------------------------------------
\* C40: find_message_to_edit, get_by_key, get_by_handler, get_last_message
\* and get_all_for_chat are pure queries: a step that registers nothing
\* leaves every deque, the key index and the handler index as they were, and
\* what the last lookup returned is what the same lookup returns now, as
\* long as no register call has come between.
C40_LookupsArePure ==
    /\ [](lookup.query # NoQuery => lookup.result = Ask(Reg, lookup.query))
    /\ [][count' = count =>
            /\ UNCHANGED <<registry, key_registry, handler_registry>>
            /\ lookup'.query = lookup.query
                   => lookup'.result = lookup.result]_vars

\* after an eviction in chat 1, get_all_for_chat(1) returned the two
\* records the chat holds, newest first
C40_Witness ==
    /\ old_record # NoRecord
    /\ lookup.query = Query("get_all_for_chat", None, None, 1, NoQuery.answer)
    /\ Len(lookup.result) = MaxPerChat
    /\ lookup.result[1].seq = count[1]
    /\ lookup.result = Reverse(Fifo(1))

====
